---- MODULE Spec2Model ----
(***************************************************************************)
(* A model of the CRC engine of go-crc (src/crc.go): the reflection        *)
(* utility, parameter validation, table construction, the bit-by-bit and   *)
(* table-driven updates, sessions and one-shot computation.                *)
(*                                                                         *)
(* An unsigned integer of type T (uint8 .. uint64) is modelled by the set  *)
(* of the positions of its 1 bits, a subset of 0 .. bits(T)-1: position 0  *)
(* is the least significant bit.  XOR is the symmetric difference, AND the *)
(* intersection, a shift moves the positions and drops those that leave    *)
(* 0 .. bits(T)-1, so every operation is exact modulo 2^bits(T) for every  *)
(* width up to 64.  A data byte is a number in 0 .. 255.                   *)
(***************************************************************************)
EXTENDS Integers, Sequences, FiniteSets, TLC

VARIABLES
    algo,     \* the engine NewAlgo returned (an algo record), or NoAlgo
    err,      \* the error NewAlgo returned, or NoErr
    crcs,     \* the sessions created so far: crcs[s].reg is session s's register
    hist,     \* history: hist[s] is the sequence of calls session s completed
    ret,      \* the outcome of the last call: its value or its panic
    script,   \* the calls a driver (a test of crc_test.go) has still to make
    preset,   \* a preset: its parameters and its algoOnce (done flag, mutex)
    procs     \* the goroutines calling the preset: where each one is

vars == <<algo, err, crcs, hist, ret, script, preset, procs>>

---------------------------------------------------------------------------
(* Unsigned integers as sets of bit positions.                             *)

\* The value n (0 <= n < 2^31) as a set of bit positions.
U(n) == {i \in 0..30 : (n \div (2 ^ i)) % 2 = 1}

\* The data byte b (0 <= b < 256) as a set of bit positions.
Byte(b) == {i \in 0..7 : (b \div (2 ^ i)) % 2 = 1}

\* The value written as 16-bit limbs, most significant first:
\* Hex(<<\hcbf4, \h3926>>) is 0xcbf43926.
Hex(limbs) ==
    UNION {{16 * (Len(limbs) - k) + i : i \in U(limbs[k])} : k \in 1..Len(limbs)}

\* The number a byte-sized value stands for.
ToNat(v) ==
    LET bit(i) == IF i \in v THEN 2 ^ i ELSE 0
    IN  bit(0) + bit(1) + bit(2) + bit(3) + bit(4) + bit(5) + bit(6) + bit(7)

\* T(x): conversion to a type of `bits` bits keeps the low bits.
Conv(bits, v) == {i \in v : i < bits}

Xor(a, b) == {i \in a \cup b : ~(i \in a /\ i \in b)}

And(a, b) == {i \in a : i \in b}

Or(a, b) == {i \in a \cup b : TRUE}

\* v >> n
Shr(v, n) == {i - n : i \in {j \in v : j >= n}}

\* v << n in a type of `bits` bits: the bits shifted out are lost.
Shl(bits, v, n) == {i + n : i \in {j \in v : j + n < bits}}

\* v - 1 in a type of `bits` bits: 0 - 1 wraps to the all-ones value.
Dec(bits, v) ==
    IF v = {} THEN 0..(bits - 1)
    ELSE LET low == CHOOSE i \in v : \A j \in v : i <= j
         IN  (v \ {low}) \cup 0..(low - 1)

\* a > b, as unsigned integers.
Gt(a, b) ==
    LET d == Xor(a, b)
    IN  d # {} /\ (CHOOSE i \in d : \A j \in d : j <= i) \in a

---------------------------------------------------------------------------
(* The reflection utility.                                                 *)

\* The loop of reflect, from the state st of its variables i, val and x.
\* (The variables of a loop are kept in one record, whose fields are all
\* evaluated when the loop's condition reads i.)
RECURSIVE reflectLoop(_, _, _)
reflectLoop(bits, st, numBits) ==
    IF st.i < numBits
    THEN reflectLoop(bits,
                     [i   |-> st.i + 1,
                      val |-> Shr(st.val, 1),
                      x   |-> Or(Shl(bits, st.x, 1), And(Shr(st.val, 1), {0}))],
                     numBits)
    ELSE st.x

\* reflect were it to start from val itself and not from its lowest bit.
reflectWholeVal(bits, val, numBits) ==
    reflectLoop(bits, [i |-> 1, val |-> val, x |-> val], numBits)

\* reflect[T](val, numBits), T a type of `bits` bits.
reflect(bits, val, numBits) ==
    reflectLoop(bits, [i |-> 1, val |-> val, x |-> And(val, {0})], numBits)

\* The table init() fills: entry 0 stays zero, entries 1..255 are reflect(i, 8).
reflectedBytes ==
    [i \in 0..255 |-> IF i = 0 THEN 0 ELSE ToNat(reflect(8, Byte(i), 8))]

---------------------------------------------------------------------------
(* Engine construction.                                                    *)

NoErr == ""

ErrWidth ==
    "width must be greater than zero and less than or equal to the bit width of T"

ErrRange == "poly, init or xorout is outside of the range allowed by width"

PanicBitLen == "bitLen is greater than the number of bits in the input data"

PanicIndex == "index out of range"

\* checkParams were its width test to shift by width and not by width - 1.
checkParamsShiftWidth(bits, width, poly, init, xorout) ==
    IF width <= 0 \/ Shl(bits, {0}, width) = {}
    THEN ErrWidth
    ELSE LET m == Dec(bits, Shl(bits, {0}, width))
         IN  IF Gt(poly, m) \/ Gt(init, m) \/ Gt(xorout, m)
             THEN ErrRange ELSE NoErr

\* checkParams were it not to test xorout.
checkParamsNoXorout(bits, width, poly, init, xorout) ==
    IF width <= 0 \/ Shl(bits, {0}, width - 1) = {}
    THEN ErrWidth
    ELSE LET m == Dec(bits, Shl(bits, {0}, width))
         IN  IF Gt(poly, m) \/ Gt(init, m) THEN ErrRange ELSE NoErr

\* checkParams[T](width, poly, init, xorout), T a type of `bits` bits.
checkParams(bits, width, poly, init, xorout) ==
    IF width <= 0 \/ Shl(bits, {0}, width - 1) = {}
    THEN ErrWidth
    ELSE LET m == Dec(bits, Shl(bits, {0}, width))
         IN  IF Gt(poly, m) \/ Gt(init, m) \/ Gt(xorout, m)
             THEN ErrRange
             ELSE NoErr

\* The loop of bbbUpd, from the state st of its variables i and reg.
RECURSIVE bbbLoop(_, _, _)
bbbLoop(a, st, bitLen) ==
    IF st.i < bitLen
    THEN bbbLoop(a,
                 [i   |-> st.i + 1,
                  reg |-> IF And(st.reg, {0}) # {}
                          THEN Xor(Shr(st.reg, 1), a.refPoly)
                          ELSE Shr(st.reg, 1)],
                 bitLen)
    ELSE st.reg

\* bbbUpd were it to shift eight times whatever bitLen is.
bbbUpdEight(a, reg, b, bitLen) ==
    LET b1 == IF ~a.refin THEN reflectedBytes[b] ELSE b
        b2 == And(Byte(b1), Dec(8, Shl(8, {0}, bitLen)))
    IN  bbbLoop(a, [i |-> 0, reg |-> Xor(reg, b2)], 8)

\* bbbUpd were it not to zero the unused bits of b.
bbbUpdNoMask(a, reg, b, bitLen) ==
    LET b1 == IF ~a.refin THEN reflectedBytes[b] ELSE b
    IN  bbbLoop(a, [i |-> 0, reg |-> Xor(reg, Byte(b1))], bitLen)

\* algo.bbbUpd(reg, b, bitLen): the bit-by-bit (tableless) update.
bbbUpd(a, reg, b, bitLen) ==
    LET b1 == IF ~a.refin THEN reflectedBytes[b] ELSE b
        b2 == And(Byte(b1), Dec(8, Shl(8, {0}, bitLen)))
    IN  bbbLoop(a, [i |-> 0, reg |-> Xor(reg, b2)], bitLen)

\* The engine a nil pointer stands for.
NoAlgo ==
    [bits |-> 0, width |-> 0, refPoly |-> {}, refInit |-> {}, xorout |-> {},
     refin |-> FALSE, refout |-> FALSE, table |-> <<>>]

\* NewAlgo were its table entries the register after seven shifts.
NewAlgoSevenShifts(bits, width, poly, init, xorout, refin, refout) ==
    LET e == checkParams(bits, width, poly, init, xorout)
        a == [bits |-> bits, width |-> width,
              refPoly |-> reflect(bits, poly, width),
              refInit |-> reflect(bits, init, width),
              xorout |-> xorout, refin |-> refin, refout |-> refout,
              table |-> [i \in 0..255 |-> {}]]
    IN  IF e # NoErr
        THEN [a |-> NoAlgo, err |-> e]
        ELSE [a |-> [a EXCEPT !.table =
                        [i \in 0..255 |->
                            IF i = 0 THEN {} ELSE bbbUpd(a, Byte(i), 0, 7)]],
              err |-> NoErr]

\* NewAlgo[T](width, poly, init, xorout, refin, refout): the engine and the error.
NewAlgo(bits, width, poly, init, xorout, refin, refout) ==
    LET e == checkParams(bits, width, poly, init, xorout)
        a == [bits |-> bits, width |-> width,
              refPoly |-> reflect(bits, poly, width),
              refInit |-> reflect(bits, init, width),
              xorout |-> xorout, refin |-> refin, refout |-> refout,
              table |-> [i \in 0..255 |-> {}]]
    IN  IF e # NoErr
        THEN [a |-> NoAlgo, err |-> e]
        ELSE [a |-> [a EXCEPT !.table =
                        [i \in 0..255 |->
                            IF i = 0 THEN {} ELSE bbbUpd(a, Byte(i), 0, 8)]],
              err |-> NoErr]

---------------------------------------------------------------------------
(* Updates, sessions and one-shot computation.                             *)

\* What a call yields: a value, or the panic that ended it.
Ok(v) == [panic |-> "", val |-> v]

Panic(msg) == [panic |-> msg, val |-> {}]

\* The loop of tblUpd were it to leave out the shifted register.
RECURSIVE tblLoopNoShift(_, _, _, _)
tblLoopNoShift(a, st, data, n) ==
    IF st.i <= n
    THEN LET b == IF ~a.refin THEN reflectedBytes[data[st.i]] ELSE data[st.i]
         IN  tblLoopNoShift(a,
                 [i   |-> st.i + 1,
                  reg |-> a.table[ToNat(Xor(Conv(8, st.reg), Byte(b)))]],
                 data, n)
    ELSE st.reg

\* The loop of tblUpd were it not to reflect the input bytes of an engine
\* whose refin is false.
RECURSIVE tblLoopNoRefin(_, _, _, _)
tblLoopNoRefin(a, st, data, n) ==
    IF st.i <= n
    THEN tblLoopNoRefin(a,
             [i   |-> st.i + 1,
              reg |-> Xor(a.table[ToNat(Xor(Conv(8, st.reg), Byte(data[st.i])))],
                          Shr(st.reg, 8))],
             data, n)
    ELSE st.reg

\* The loop of tblUpd over data[:n], from the state st of its variables: the
\* (1-based) index i of the next byte, and reg.
RECURSIVE tblLoop(_, _, _, _)
tblLoop(a, st, data, n) ==
    IF st.i <= n
    THEN LET b == IF ~a.refin THEN reflectedBytes[data[st.i]] ELSE data[st.i]
         IN  tblLoop(a,
                     [i   |-> st.i + 1,
                      reg |-> Xor(a.table[ToNat(Xor(Conv(8, st.reg), Byte(b)))],
                                  Shr(st.reg, 8))],
                     data, n)
    ELSE st.reg

\* tblUpd were it to read data[n] before it tests bitsLeft.
tblUpdEagerRead(a, reg, data, bitLen) ==
    IF bitLen >= 0 /\ bitLen > Len(data) * 8
    THEN Panic(PanicBitLen)
    ELSE LET n        == IF bitLen < 0 THEN Len(data) ELSE bitLen \div 8
             bitsLeft == IF bitLen < 0 THEN 0 ELSE bitLen % 8
             reg1     == tblLoop(a, [i |-> 1, reg |-> reg], data, n)
         IN  IF n + 1 > Len(data)
             THEN Panic(PanicIndex)
             ELSE IF bitsLeft > 0
                  THEN Ok(bbbUpd(a, reg1, data[n + 1], bitsLeft))
                  ELSE Ok(reg1)

\* tblUpd were it to leave the bits of the last, partial, byte out.
tblUpdWholeBytes(a, reg, data, bitLen) ==
    IF bitLen >= 0 /\ bitLen > Len(data) * 8
    THEN Panic(PanicBitLen)
    ELSE Ok(tblLoop(a, [i |-> 1, reg |-> reg], data,
                    IF bitLen < 0 THEN Len(data) ELSE bitLen \div 8))

\* tblUpd were it to start from the initial register whatever reg is.
tblUpdFresh(a, reg, data, bitLen) ==
    LET n == IF bitLen < 0 THEN Len(data) ELSE bitLen \div 8
    IN  IF bitLen >= 0 /\ bitLen > Len(data) * 8
        THEN Panic(PanicBitLen)
        ELSE IF bitLen >= 0 /\ bitLen % 8 > 0
             THEN Ok(bbbUpd(a, tblLoop(a, [i |-> 1, reg |-> a.refInit], data, n),
                            data[n + 1], bitLen % 8))
             ELSE Ok(tblLoop(a, [i |-> 1, reg |-> a.refInit], data, n))

\* tblUpd were a negative bitLen to mean no input at all.
tblUpdNegEmpty(a, reg, data, bitLen) ==
    LET n == bitLen \div 8
    IN  IF bitLen < 0
        THEN Ok(reg)
        ELSE IF bitLen > Len(data) * 8
             THEN Panic(PanicBitLen)
             ELSE IF bitLen % 8 > 0
                  THEN Ok(bbbUpd(a, tblLoop(a, [i |-> 1, reg |-> reg], data, n),
                                 data[n + 1], bitLen % 8))
                  ELSE Ok(tblLoop(a, [i |-> 1, reg |-> reg], data, n))

\* tblUpd were a bitLen beyond the data to be cut to the data's length.
tblUpdTruncate(a, reg, data, bitLen) ==
    LET len == IF bitLen < 0 \/ bitLen > Len(data) * 8
               THEN Len(data) * 8 ELSE bitLen
        n   == len \div 8
    IN  IF len % 8 > 0
        THEN Ok(bbbUpd(a, tblLoop(a, [i |-> 1, reg |-> reg], data, n), data[n + 1], len % 8))
        ELSE Ok(tblLoop(a, [i |-> 1, reg |-> reg], data, n))

\* algo.tblUpd(reg, data, bitLen).
tblUpd(a, reg, data, bitLen) ==
    IF bitLen >= 0 /\ bitLen > Len(data) * 8
    THEN Panic(PanicBitLen)
    ELSE LET n        == IF bitLen < 0 THEN Len(data) ELSE bitLen \div 8
             bitsLeft == IF bitLen < 0 THEN 0 ELSE bitLen % 8
             reg1     == tblLoop(a, [i |-> 1, reg |-> reg], data, n)
         IN  IF bitsLeft > 0
             THEN IF n + 1 > Len(data)
                  THEN Panic(PanicIndex)
                  ELSE Ok(bbbUpd(a, reg1, data[n + 1], bitsLeft))
             ELSE Ok(reg1)

\* Residue were it to reflect all the bits of T and not the width bits.
ResidueAllBits(a, reg) ==
    IF a.refout THEN reg ELSE reflect(a.bits, reg, a.bits)

\* Residue were it to return the register whatever refout is.
ResidueNoReflect(a, reg) == reg

\* crc.Residue() of a session of engine a whose register is reg.
Residue(a, reg) ==
    IF a.refout THEN reg ELSE reflect(a.bits, reg, a.width)

\* Final were it to XOR xorout into the register itself.
FinalOfRegister(a, reg) == Xor(reg, a.xorout)

\* crc.Final().
Final(a, reg) == Xor(Residue(a, reg), a.xorout)

\* algo.CalcBits(data, bitLen): a fresh session, one UpdateBits, Final.
CalcBits(a, data, bitLen) ==
    LET r == tblUpd(a, a.refInit, data, bitLen)
    IN  IF r.panic # "" THEN r ELSE Ok(Final(a, r.val))

\* algo.Calc(data).
Calc(a, data) == CalcBits(a, data, -1)

---------------------------------------------------------------------------
(* The calls of the API as actions.                                        *)

\* The parameters of one NewAlgo[T] call.
Params(bits, width, poly, init, xorout, refin, refout) ==
    [bits |-> bits, width |-> width, poly |-> poly, init |-> init,
     xorout |-> xorout, refin |-> refin, refout |-> refout]

NoParams == Params(0, 0, {}, {}, {}, FALSE, FALSE)

\* The outcome of a call: op on session s (0: no session) with data and bitLen
\* (p: the parameters of a NewAlgo call).
Outcome(op, s, data, bitLen, r) ==
    [op |-> op, s |-> s, data |-> data, bitLen |-> bitLen,
     val |-> r.val, panic |-> r.panic, p |-> NoParams]

NoRet == Outcome("", 0, <<>>, 0, Ok({}))

\* One call a session completed.
Call(data, bitLen) == [data |-> data, bitLen |-> bitLen]

\* NewAlgo[T](...) with the parameters p, once.
CallNewAlgo(p) ==
    /\ algo = NoAlgo
    /\ err = NoErr
    /\ LET r == NewAlgo(p.bits, p.width, p.poly, p.init, p.xorout,
                        p.refin, p.refout)
       IN  /\ algo' = r.a
           /\ err' = r.err
    /\ ret' = [Outcome("NewAlgo", 0, <<>>, 0, Ok({})) EXCEPT !.p = p]
    /\ UNCHANGED <<crcs, hist>>

\* algo.NewCRC(): a new session whose register is refInit.
CallNewCRC ==
    /\ algo # NoAlgo
    /\ crcs' = Append(crcs, [reg |-> algo.refInit])
    /\ hist' = Append(hist, <<>>)
    /\ ret' = Outcome("NewCRC", Len(crcs) + 1, <<>>, 0, Ok({}))
    /\ UNCHANGED <<algo, err>>

\* UpdateBits were it to fold in the bytes there are before it panics.
CallUpdateBitsThenPanic(s, data, bitLen) ==
    /\ s \in DOMAIN crcs
    /\ LET r == tblUpd(algo, crcs[s].reg, data, bitLen)
       IN  IF r.panic # ""
           THEN /\ ret' = Outcome("UpdateBits", s, data, bitLen, r)
                /\ crcs' = [crcs EXCEPT
                               ![s].reg = tblUpd(algo, @, data, -1).val]
                /\ UNCHANGED hist
           ELSE /\ ret' = Outcome("UpdateBits", s, data, bitLen, Ok({}))
                /\ crcs' = [crcs EXCEPT ![s].reg = r.val]
                /\ hist' = [hist EXCEPT ![s] = Append(@, Call(data, bitLen))]
    /\ UNCHANGED <<algo, err>>

\* crc.UpdateBits(data, bitLen) on session s: a panic leaves the assignment
\* to c.reg undone.
CallUpdateBits(s, data, bitLen) ==
    /\ s \in DOMAIN crcs
    /\ LET r == tblUpd(algo, crcs[s].reg, data, bitLen)
       IN  IF r.panic # ""
           THEN /\ ret' = Outcome("UpdateBits", s, data, bitLen, r)
                /\ UNCHANGED <<crcs, hist>>
           ELSE /\ ret' = Outcome("UpdateBits", s, data, bitLen, Ok({}))
                /\ crcs' = [crcs EXCEPT ![s].reg = r.val]
                /\ hist' = [hist EXCEPT ![s] = Append(@, Call(data, bitLen))]
    /\ UNCHANGED <<algo, err>>

\* Update were the register one that all the sessions of an engine share.
CallUpdateShared(s, data) ==
    /\ s \in DOMAIN crcs
    /\ ret' = Outcome("Update", s, data, -1, Ok({}))
    /\ crcs' = [t \in DOMAIN crcs |->
                   [reg |-> tblUpd(algo, crcs[s].reg, data, -1).val]]
    /\ hist' = [hist EXCEPT ![s] = Append(@, Call(data, -1))]
    /\ UNCHANGED <<algo, err>>

\* crc.Update(data) on session s.
CallUpdate(s, data) ==
    /\ s \in DOMAIN crcs
    /\ LET r == tblUpd(algo, crcs[s].reg, data, -1)
       IN  IF r.panic # ""
           THEN /\ ret' = Outcome("Update", s, data, -1, r)
                /\ UNCHANGED <<crcs, hist>>
           ELSE /\ ret' = Outcome("Update", s, data, -1, Ok({}))
                /\ crcs' = [crcs EXCEPT ![s].reg = r.val]
                /\ hist' = [hist EXCEPT ![s] = Append(@, Call(data, -1))]
    /\ UNCHANGED <<algo, err>>

\* crc.Final() on session s.
CallFinal(s) ==
    /\ s \in DOMAIN crcs
    /\ ret' = Outcome("Final", s, <<>>, 0, Ok(Final(algo, crcs[s].reg)))
    /\ UNCHANGED <<algo, err, crcs, hist>>

\* crc.Residue() on session s.
CallResidue(s) ==
    /\ s \in DOMAIN crcs
    /\ ret' = Outcome("Residue", s, <<>>, 0, Ok(Residue(algo, crcs[s].reg)))
    /\ UNCHANGED <<algo, err, crcs, hist>>

\* algo.CalcBits(data, bitLen): its session is not kept.
CallCalcBits(data, bitLen) ==
    /\ algo # NoAlgo
    /\ ret' = Outcome("CalcBits", 0, data, bitLen, CalcBits(algo, data, bitLen))
    /\ UNCHANGED <<algo, err, crcs, hist>>

\* algo.Calc(data).
CallCalc(data) ==
    /\ algo # NoAlgo
    /\ ret' = Outcome("Calc", 0, data, -1, Calc(algo, data))
    /\ UNCHANGED <<algo, err, crcs, hist>>

---------------------------------------------------------------------------
(* The preset catalogue and the table of the tests.                        *)

\* The presets of src/crc.go, in the order of the source: each a name and the
\* parameters mustNewPreset is called with.
Presets ==
    <<
      [name |-> "CRC3GSM",
       p |-> Params(8, 3, U(\h3), U(\h0), U(\h7), FALSE, FALSE)],
      [name |-> "CRC3ROHC",
       p |-> Params(8, 3, U(\h3), U(\h7), U(\h0), TRUE, TRUE)],
      [name |-> "CRC4INTERLAKEN",
       p |-> Params(8, 4, U(\h3), U(\hf), U(\hf), FALSE, FALSE)],
      [name |-> "CRC4G704",
       p |-> Params(8, 4, U(\h3), U(\h0), U(\h0), TRUE, TRUE)],
      [name |-> "CRC5USB",
       p |-> Params(8, 5, U(\h5), U(\h1f), U(\h1f), TRUE, TRUE)],
      [name |-> "CRC5EPCC1G2",
       p |-> Params(8, 5, U(\h9), U(\h9), U(\h0), FALSE, FALSE)],
      [name |-> "CRC5G704",
       p |-> Params(8, 5, U(\h15), U(\h0), U(\h0), TRUE, TRUE)],
      [name |-> "CRC6G704",
       p |-> Params(8, 6, U(\h3), U(\h0), U(\h0), TRUE, TRUE)],
      [name |-> "CRC6CDMA2000B",
       p |-> Params(8, 6, U(\h7), U(\h3f), U(\h0), FALSE, FALSE)],
      [name |-> "CRC6DARC",
       p |-> Params(8, 6, U(\h19), U(\h0), U(\h0), TRUE, TRUE)],
      [name |-> "CRC6CDMA2000A",
       p |-> Params(8, 6, U(\h27), U(\h3f), U(\h0), FALSE, FALSE)],
      [name |-> "CRC6GSM",
       p |-> Params(8, 6, U(\h2f), U(\h0), U(\h3f), FALSE, FALSE)],
      [name |-> "CRC7MMC",
       p |-> Params(8, 7, U(\h9), U(\h0), U(\h0), FALSE, FALSE)],
      [name |-> "CRC7UMTS",
       p |-> Params(8, 7, U(\h45), U(\h0), U(\h0), FALSE, FALSE)],
      [name |-> "CRC7ROHC",
       p |-> Params(8, 7, U(\h4f), U(\h7f), U(\h0), TRUE, TRUE)],
      [name |-> "CRC8SMBUS",
       p |-> Params(8, 8, U(\h7), U(\h0), U(\h0), FALSE, FALSE)],
      [name |-> "CRC8I4321",
       p |-> Params(8, 8, U(\h7), U(\h0), U(\h55), FALSE, FALSE)],
      [name |-> "CRC8ROHC",
       p |-> Params(8, 8, U(\h7), U(\hff), U(\h0), TRUE, TRUE)],
      [name |-> "CRC8GSMA",
       p |-> Params(8, 8, U(\h1d), U(\h0), U(\h0), FALSE, FALSE)],
      [name |-> "CRC8MIFAREMAD",
       p |-> Params(8, 8, U(\h1d), U(\hc7), U(\h0), FALSE, FALSE)],
      [name |-> "CRC8ICODE",
       p |-> Params(8, 8, U(\h1d), U(\hfd), U(\h0), FALSE, FALSE)],
      [name |-> "CRC8HITAG",
       p |-> Params(8, 8, U(\h1d), U(\hff), U(\h0), FALSE, FALSE)],
      [name |-> "CRC8SAEJ1850",
       p |-> Params(8, 8, U(\h1d), U(\hff), U(\hff), FALSE, FALSE)],
      [name |-> "CRC8TECH3250",
       p |-> Params(8, 8, U(\h1d), U(\hff), U(\h0), TRUE, TRUE)],
      [name |-> "CRC8OPENSAFETY",
       p |-> Params(8, 8, U(\h2f), U(\h0), U(\h0), FALSE, FALSE)],
      [name |-> "CRC8AUTOSAR",
       p |-> Params(8, 8, U(\h2f), U(\hff), U(\hff), FALSE, FALSE)],
      [name |-> "CRC8NRSC5",
       p |-> Params(8, 8, U(\h31), U(\hff), U(\h0), FALSE, FALSE)],
      [name |-> "CRC8MAXIMDOW",
       p |-> Params(8, 8, U(\h31), U(\h0), U(\h0), TRUE, TRUE)],
      [name |-> "CRC8DARC",
       p |-> Params(8, 8, U(\h39), U(\h0), U(\h0), TRUE, TRUE)],
      [name |-> "CRC8GSMB",
       p |-> Params(8, 8, U(\h49), U(\h0), U(\hff), FALSE, FALSE)],
      [name |-> "CRC8LTE",
       p |-> Params(8, 8, U(\h9b), U(\h0), U(\h0), FALSE, FALSE)],
      [name |-> "CRC8CDMA2000",
       p |-> Params(8, 8, U(\h9b), U(\hff), U(\h0), FALSE, FALSE)],
      [name |-> "CRC8WCDMA",
       p |-> Params(8, 8, U(\h9b), U(\h0), U(\h0), TRUE, TRUE)],
      [name |-> "CRC8BLUETOOTH",
       p |-> Params(8, 8, U(\ha7), U(\h0), U(\h0), TRUE, TRUE)],
      [name |-> "CRC8DVBS2",
       p |-> Params(8, 8, U(\hd5), U(\h0), U(\h0), FALSE, FALSE)],
      [name |-> "CRC10GSM",
       p |-> Params(16, 10, U(\h175), U(\h0), U(\h3ff), FALSE, FALSE)],
      [name |-> "CRC10ATM",
       p |-> Params(16, 10, U(\h233), U(\h0), U(\h0), FALSE, FALSE)],
      [name |-> "CRC10CDMA2000",
       p |-> Params(16, 10, U(\h3d9), U(\h3ff), U(\h0), FALSE, FALSE)],
      [name |-> "CRC11UMTS",
       p |-> Params(16, 11, U(\h307), U(\h0), U(\h0), FALSE, FALSE)],
      [name |-> "CRC11FLEXRAY",
       p |-> Params(16, 11, U(\h385), U(\h1a), U(\h0), FALSE, FALSE)],
      [name |-> "CRC12DECT",
       p |-> Params(16, 12, U(\h80f), U(\h0), U(\h0), FALSE, FALSE)],
      [name |-> "CRC12UMTS",
       p |-> Params(16, 12, U(\h80f), U(\h0), U(\h0), FALSE, TRUE)],
      [name |-> "CRC12GSM",
       p |-> Params(16, 12, U(\hd31), U(\h0), U(\hfff), FALSE, FALSE)],
      [name |-> "CRC12CDMA2000",
       p |-> Params(16, 12, U(\hf13), U(\hfff), U(\h0), FALSE, FALSE)],
      [name |-> "CRC13BBC",
       p |-> Params(16, 13, U(\h1cf5), U(\h0), U(\h0), FALSE, FALSE)],
      [name |-> "CRC14DARC",
       p |-> Params(16, 14, U(\h805), U(\h0), U(\h0), TRUE, TRUE)],
      [name |-> "CRC14GSM",
       p |-> Params(16, 14, U(\h202d), U(\h0), U(\h3fff), FALSE, FALSE)],
      [name |-> "CRC15CAN",
       p |-> Params(16, 15, U(\h4599), U(\h0), U(\h0), FALSE, FALSE)],
      [name |-> "CRC15MPT1327",
       p |-> Params(16, 15, U(\h6815), U(\h0), U(\h1), FALSE, FALSE)],
      [name |-> "CRC16DECTX",
       p |-> Params(16, 16, U(\h589), U(\h0), U(\h0), FALSE, FALSE)],
      [name |-> "CRC16DECTR",
       p |-> Params(16, 16, U(\h589), U(\h0), U(\h1), FALSE, FALSE)],
      [name |-> "CRC16NRSC5",
       p |-> Params(16, 16, U(\h80b), U(\hffff), U(\h0), TRUE, TRUE)],
      [name |-> "CRC16XMODEM",
       p |-> Params(16, 16, U(\h1021), U(\h0), U(\h0), FALSE, FALSE)],
      [name |-> "CRC16GSM",
       p |-> Params(16, 16, U(\h1021), U(\h0), U(\hffff), FALSE, FALSE)],
      [name |-> "CRC16SPIFUJITSU",
       p |-> Params(16, 16, U(\h1021), U(\h1d0f), U(\h0), FALSE, FALSE)],
      [name |-> "CRC16IBM3740",
       p |-> Params(16, 16, U(\h1021), U(\hffff), U(\h0), FALSE, FALSE)],
      [name |-> "CRC16GENIBUS",
       p |-> Params(16, 16, U(\h1021), U(\hffff), U(\hffff), FALSE, FALSE)],
      [name |-> "CRC16KERMIT",
       p |-> Params(16, 16, U(\h1021), U(\h0), U(\h0), TRUE, TRUE)],
      [name |-> "CRC16TMS37157",
       p |-> Params(16, 16, U(\h1021), U(\h89ec), U(\h0), TRUE, TRUE)],
      [name |-> "CRC16RIELLO",
       p |-> Params(16, 16, U(\h1021), U(\hb2aa), U(\h0), TRUE, TRUE)],
      [name |-> "CRC16ISOIEC144433A",
       p |-> Params(16, 16, U(\h1021), U(\hc6c6), U(\h0), TRUE, TRUE)],
      [name |-> "CRC16MCRF4XX",
       p |-> Params(16, 16, U(\h1021), U(\hffff), U(\h0), TRUE, TRUE)],
      [name |-> "CRC16IBMSDLC",
       p |-> Params(16, 16, U(\h1021), U(\hffff), U(\hffff), TRUE, TRUE)],
      [name |-> "CRC16PROFIBUS",
       p |-> Params(16, 16, U(\h1dcf), U(\hffff), U(\hffff), FALSE, FALSE)],
      [name |-> "CRC16EN13757",
       p |-> Params(16, 16, U(\h3d65), U(\h0), U(\hffff), FALSE, FALSE)],
      [name |-> "CRC16DNP",
       p |-> Params(16, 16, U(\h3d65), U(\h0), U(\hffff), TRUE, TRUE)],
      [name |-> "CRC16OPENSAFETYA",
       p |-> Params(16, 16, U(\h5935), U(\h0), U(\h0), FALSE, FALSE)],
      [name |-> "CRC16M17",
       p |-> Params(16, 16, U(\h5935), U(\hffff), U(\h0), FALSE, FALSE)],
      [name |-> "CRC16LJ1200",
       p |-> Params(16, 16, U(\h6f63), U(\h0), U(\h0), FALSE, FALSE)],
      [name |-> "CRC16OPENSAFETYB",
       p |-> Params(16, 16, U(\h755b), U(\h0), U(\h0), FALSE, FALSE)],
      [name |-> "CRC16UMTS",
       p |-> Params(16, 16, U(\h8005), U(\h0), U(\h0), FALSE, FALSE)],
      [name |-> "CRC16DDS110",
       p |-> Params(16, 16, U(\h8005), U(\h800d), U(\h0), FALSE, FALSE)],
      [name |-> "CRC16CMS",
       p |-> Params(16, 16, U(\h8005), U(\hffff), U(\h0), FALSE, FALSE)],
      [name |-> "CRC16ARC",
       p |-> Params(16, 16, U(\h8005), U(\h0), U(\h0), TRUE, TRUE)],
      [name |-> "CRC16MAXIMDOW",
       p |-> Params(16, 16, U(\h8005), U(\h0), U(\hffff), TRUE, TRUE)],
      [name |-> "CRC16MODBUS",
       p |-> Params(16, 16, U(\h8005), U(\hffff), U(\h0), TRUE, TRUE)],
      [name |-> "CRC16USB",
       p |-> Params(16, 16, U(\h8005), U(\hffff), U(\hffff), TRUE, TRUE)],
      [name |-> "CRC16T10DIF",
       p |-> Params(16, 16, U(\h8bb7), U(\h0), U(\h0), FALSE, FALSE)],
      [name |-> "CRC16TELEDISK",
       p |-> Params(16, 16, U(\ha097), U(\h0), U(\h0), FALSE, FALSE)],
      [name |-> "CRC16CDMA2000",
       p |-> Params(16, 16, U(\hc867), U(\hffff), U(\h0), FALSE, FALSE)],
      [name |-> "CRC17CANFD",
       p |-> Params(32, 17, U(\h1685b), U(\h0), U(\h0), FALSE, FALSE)],
      [name |-> "CRC21CANFD",
       p |-> Params(32, 21, U(\h102899), U(\h0), U(\h0), FALSE, FALSE)],
      [name |-> "CRC24BLE",
       p |-> Params(32, 24, U(\h65b), U(\h555555), U(\h0), TRUE, TRUE)],
      [name |-> "CRC24INTERLAKEN",
       p |-> Params(32, 24, U(\h328b63), U(\hffffff), U(\hffffff), FALSE, FALSE)],
      [name |-> "CRC24FLEXRAYB",
       p |-> Params(32, 24, U(\h5d6dcb), U(\habcdef), U(\h0), FALSE, FALSE)],
      [name |-> "CRC24FLEXRAYA",
       p |-> Params(32, 24, U(\h5d6dcb), U(\hfedcba), U(\h0), FALSE, FALSE)],
      [name |-> "CRC24LTEB",
       p |-> Params(32, 24, U(\h800063), U(\h0), U(\h0), FALSE, FALSE)],
      [name |-> "CRC24OS9",
       p |-> Params(32, 24, U(\h800063), U(\hffffff), U(\hffffff), FALSE, FALSE)],
      [name |-> "CRC24LTEA",
       p |-> Params(32, 24, U(\h864cfb), U(\h0), U(\h0), FALSE, FALSE)],
      [name |-> "CRC24OPENPGP",
       p |-> Params(32, 24, U(\h864cfb), U(\hb704ce), U(\h0), FALSE, FALSE)],
      [name |-> "CRC30CDMA",
       p |-> Params(32, 30, U(\h2030b9c7), U(\h3fffffff), U(\h3fffffff), FALSE, FALSE)],
      [name |-> "CRC31PHILIPS",
       p |-> Params(32, 31, U(\h4c11db7), U(\h7fffffff), U(\h7fffffff), FALSE, FALSE)],
      [name |-> "CRC32XFER",
       p |-> Params(32, 32, U(\haf), U(\h0), U(\h0), FALSE, FALSE)],
      [name |-> "CRC32CKSUM",
       p |-> Params(32, 32, U(\h4c11db7), U(\h0), Hex(<<\hffff, \hffff>>), FALSE, FALSE)],
      [name |-> "CRC32MPEG2",
       p |-> Params(32, 32, U(\h4c11db7), Hex(<<\hffff, \hffff>>), U(\h0), FALSE, FALSE)],
      [name |-> "CRC32BZIP2",
       p |-> Params(32, 32, U(\h4c11db7), Hex(<<\hffff, \hffff>>), Hex(<<\hffff, \hffff>>), FALSE, FALSE)],
      [name |-> "CRC32JAMCRC",
       p |-> Params(32, 32, U(\h4c11db7), Hex(<<\hffff, \hffff>>), U(\h0), TRUE, TRUE)],
      [name |-> "CRC32ISOHDLC",
       p |-> Params(32, 32, U(\h4c11db7), Hex(<<\hffff, \hffff>>), Hex(<<\hffff, \hffff>>), TRUE, TRUE)],
      [name |-> "CRC32ISCSI",
       p |-> Params(32, 32, U(\h1edc6f41), Hex(<<\hffff, \hffff>>), Hex(<<\hffff, \hffff>>), TRUE, TRUE)],
      [name |-> "CRC32MEF",
       p |-> Params(32, 32, U(\h741b8cd7), Hex(<<\hffff, \hffff>>), U(\h0), TRUE, TRUE)],
      [name |-> "CRC32CDROMEDC",
       p |-> Params(32, 32, Hex(<<\h8001, \h801b>>), U(\h0), U(\h0), TRUE, TRUE)],
      [name |-> "CRC32AIXM",
       p |-> Params(32, 32, Hex(<<\h8141, \h41ab>>), U(\h0), U(\h0), FALSE, FALSE)],
      [name |-> "CRC32BASE91D",
       p |-> Params(32, 32, Hex(<<\ha833, \h982b>>), Hex(<<\hffff, \hffff>>), Hex(<<\hffff, \hffff>>), TRUE, TRUE)],
      [name |-> "CRC32AUTOSAR",
       p |-> Params(32, 32, Hex(<<\hf4ac, \hfb13>>), Hex(<<\hffff, \hffff>>), Hex(<<\hffff, \hffff>>), TRUE, TRUE)],
      [name |-> "CRC40GSM",
       p |-> Params(64, 40, U(\h4820009), U(\h0), Hex(<<\h00ff, \hffff, \hffff>>), FALSE, FALSE)],
      [name |-> "CRC64GOISO",
       p |-> Params(64, 64, U(\h1b), Hex(<<\hffff, \hffff, \hffff, \hffff>>), Hex(<<\hffff, \hffff, \hffff, \hffff>>), TRUE, TRUE)],
      [name |-> "CRC64MS",
       p |-> Params(64, 64, Hex(<<\h259c, \h84cb, \ha642, \h6349>>), Hex(<<\hffff, \hffff, \hffff, \hffff>>), U(\h0), TRUE, TRUE)],
      [name |-> "CRC64ECMA182",
       p |-> Params(64, 64, Hex(<<\h42f0, \he1eb, \ha9ea, \h3693>>), U(\h0), U(\h0), FALSE, FALSE)],
      [name |-> "CRC64WE",
       p |-> Params(64, 64, Hex(<<\h42f0, \he1eb, \ha9ea, \h3693>>), Hex(<<\hffff, \hffff, \hffff, \hffff>>), Hex(<<\hffff, \hffff, \hffff, \hffff>>), FALSE, FALSE)],
      [name |-> "CRC64XZ",
       p |-> Params(64, 64, Hex(<<\h42f0, \he1eb, \ha9ea, \h3693>>), Hex(<<\hffff, \hffff, \hffff, \hffff>>), Hex(<<\hffff, \hffff, \hffff, \hffff>>), TRUE, TRUE)],
      [name |-> "CRC64REDIS",
       p |-> Params(64, 64, Hex(<<\had93, \hd235, \h94c9, \h35a9>>), U(\h0), U(\h0), TRUE, TRUE)]
    >>

\* The table of the tests (presets of src/crc_test.go): for each preset its
\* check value, its residue, and a codeword with its length in bits.
presets ==
    <<
      [name |-> "CRC3GSM", check |-> U(\h4), residue |-> U(\h2),
       codeWord |-> <<67, 82, 67, 51, 71, 83, 77, 224>>,
       codeWordBitLen |-> 59],
      [name |-> "CRC3ROHC", check |-> U(\h6), residue |-> U(\h0),
       codeWord |-> <<67, 82, 67, 51, 82, 79, 72, 67, 6>>,
       codeWordBitLen |-> 67],
      [name |-> "CRC4INTERLAKEN", check |-> U(\hb), residue |-> U(\h2),
       codeWord |-> <<67, 82, 67, 52, 73, 78, 84, 69, 82, 76, 65, 75, 69, 78, 64>>,
       codeWordBitLen |-> 116],
      [name |-> "CRC4G704", check |-> U(\h7), residue |-> U(\h0),
       codeWord |-> <<67, 82, 67, 52, 71, 55, 48, 52, 9>>,
       codeWordBitLen |-> 68],
      [name |-> "CRC5USB", check |-> U(\h19), residue |-> U(\h6),
       codeWord |-> <<67, 82, 67, 53, 85, 83, 66, 13>>,
       codeWordBitLen |-> 61],
      [name |-> "CRC5EPCC1G2", check |-> U(\h0), residue |-> U(\h0),
       codeWord |-> <<67, 82, 67, 53, 69, 80, 67, 67, 49, 71, 50, 192>>,
       codeWordBitLen |-> 93],
      [name |-> "CRC5G704", check |-> U(\h7), residue |-> U(\h0),
       codeWord |-> <<67, 82, 67, 53, 71, 55, 48, 52, 2>>,
       codeWordBitLen |-> 69],
      [name |-> "CRC6G704", check |-> U(\h6), residue |-> U(\h0),
       codeWord |-> <<67, 82, 67, 54, 71, 55, 48, 52, 11>>,
       codeWordBitLen |-> 70],
      [name |-> "CRC6CDMA2000B", check |-> U(\h3b), residue |-> U(\h0),
       codeWord |-> <<67, 82, 67, 54, 67, 68, 77, 65, 50, 48, 48, 48, 66, 236>>,
       codeWordBitLen |-> 110],
      [name |-> "CRC6DARC", check |-> U(\h26), residue |-> U(\h0),
       codeWord |-> <<67, 82, 67, 54, 68, 65, 82, 67, 2>>,
       codeWordBitLen |-> 70],
      [name |-> "CRC6CDMA2000A", check |-> U(\hd), residue |-> U(\h0),
       codeWord |-> <<67, 82, 67, 54, 67, 68, 77, 65, 50, 48, 48, 48, 65, 124>>,
       codeWordBitLen |-> 110],
      [name |-> "CRC6GSM", check |-> U(\h13), residue |-> U(\h3a),
       codeWord |-> <<67, 82, 67, 54, 71, 83, 77, 84>>,
       codeWordBitLen |-> 62],
      [name |-> "CRC7MMC", check |-> U(\h75), residue |-> U(\h0),
       codeWord |-> <<67, 82, 67, 55, 77, 77, 67, 174>>,
       codeWordBitLen |-> 63],
      [name |-> "CRC7UMTS", check |-> U(\h61), residue |-> U(\h0),
       codeWord |-> <<67, 82, 67, 55, 85, 77, 84, 83, 148>>,
       codeWordBitLen |-> 71],
      [name |-> "CRC7ROHC", check |-> U(\h53), residue |-> U(\h0),
       codeWord |-> <<67, 82, 67, 55, 82, 79, 72, 67, 30>>,
       codeWordBitLen |-> 71],
      [name |-> "CRC8SMBUS", check |-> U(\hf4), residue |-> U(\h0),
       codeWord |-> <<67, 82, 67, 56, 83, 77, 66, 85, 83, 15>>,
       codeWordBitLen |-> 80],
      [name |-> "CRC8I4321", check |-> U(\ha1), residue |-> U(\hac),
       codeWord |-> <<67, 82, 67, 56, 73, 52, 51, 50, 49, 154>>,
       codeWordBitLen |-> 80],
      [name |-> "CRC8ROHC", check |-> U(\hd0), residue |-> U(\h0),
       codeWord |-> <<67, 82, 67, 56, 82, 79, 72, 67, 38>>,
       codeWordBitLen |-> 72],
      [name |-> "CRC8GSMA", check |-> U(\h37), residue |-> U(\h0),
       codeWord |-> <<67, 82, 67, 56, 71, 83, 77, 65, 235>>,
       codeWordBitLen |-> 72],
      [name |-> "CRC8MIFAREMAD", check |-> U(\h99), residue |-> U(\h0),
       codeWord |-> <<67, 82, 67, 56, 77, 73, 70, 65, 82, 69, 77, 65, 68, 237>>,
       codeWordBitLen |-> 112],
      [name |-> "CRC8ICODE", check |-> U(\h7e), residue |-> U(\h0),
       codeWord |-> <<67, 82, 67, 56, 73, 67, 79, 68, 69, 31>>,
       codeWordBitLen |-> 80],
      [name |-> "CRC8HITAG", check |-> U(\hb4), residue |-> U(\h0),
       codeWord |-> <<67, 82, 67, 56, 72, 73, 84, 65, 71, 199>>,
       codeWordBitLen |-> 80],
      [name |-> "CRC8SAEJ1850", check |-> U(\h4b), residue |-> U(\hc4),
       codeWord |-> <<67, 82, 67, 56, 83, 65, 69, 74, 49, 56, 53, 48, 122>>,
       codeWordBitLen |-> 104],
      [name |-> "CRC8TECH3250", check |-> U(\h97), residue |-> U(\h0),
       codeWord |-> <<67, 82, 67, 56, 84, 69, 67, 72, 51, 50, 53, 48, 65>>,
       codeWordBitLen |-> 104],
      [name |-> "CRC8OPENSAFETY", check |-> U(\h3e), residue |-> U(\h0),
       codeWord |-> <<67, 82, 67, 56, 79, 80, 69, 78, 83, 65, 70, 69, 84, 89, 110>>,
       codeWordBitLen |-> 120],
      [name |-> "CRC8AUTOSAR", check |-> U(\hdf), residue |-> U(\h42),
       codeWord |-> <<67, 82, 67, 56, 65, 85, 84, 79, 83, 65, 82, 167>>,
       codeWordBitLen |-> 96],
      [name |-> "CRC8NRSC5", check |-> U(\hf7), residue |-> U(\h0),
       codeWord |-> <<67, 82, 67, 56, 78, 82, 83, 67, 53, 6>>,
       codeWordBitLen |-> 80],
      [name |-> "CRC8MAXIMDOW", check |-> U(\ha1), residue |-> U(\h0),
       codeWord |-> <<67, 82, 67, 56, 77, 65, 88, 73, 77, 68, 79, 87, 153>>,
       codeWordBitLen |-> 104],
      [name |-> "CRC8DARC", check |-> U(\h15), residue |-> U(\h0),
       codeWord |-> <<67, 82, 67, 56, 68, 65, 82, 67, 119>>,
       codeWordBitLen |-> 72],
      [name |-> "CRC8GSMB", check |-> U(\h94), residue |-> U(\h53),
       codeWord |-> <<67, 82, 67, 56, 71, 83, 77, 66, 147>>,
       codeWordBitLen |-> 72],
      [name |-> "CRC8LTE", check |-> U(\hea), residue |-> U(\h0),
       codeWord |-> <<67, 82, 67, 56, 76, 84, 69, 227>>,
       codeWordBitLen |-> 64],
      [name |-> "CRC8CDMA2000", check |-> U(\hda), residue |-> U(\h0),
       codeWord |-> <<67, 82, 67, 56, 67, 68, 77, 65, 50, 48, 48, 48, 189>>,
       codeWordBitLen |-> 104],
      [name |-> "CRC8WCDMA", check |-> U(\h25), residue |-> U(\h0),
       codeWord |-> <<67, 82, 67, 56, 87, 67, 68, 77, 65, 177>>,
       codeWordBitLen |-> 80],
      [name |-> "CRC8BLUETOOTH", check |-> U(\h26), residue |-> U(\h0),
       codeWord |-> <<67, 82, 67, 56, 66, 76, 85, 69, 84, 79, 79, 84, 72, 68>>,
       codeWordBitLen |-> 112],
      [name |-> "CRC8DVBS2", check |-> U(\hbc), residue |-> U(\h0),
       codeWord |-> <<67, 82, 67, 56, 68, 86, 66, 83, 50, 146>>,
       codeWordBitLen |-> 80],
      [name |-> "CRC10GSM", check |-> U(\h12a), residue |-> U(\hc6),
       codeWord |-> <<67, 82, 67, 49, 48, 71, 83, 77, 183, 64>>,
       codeWordBitLen |-> 74],
      [name |-> "CRC10ATM", check |-> U(\h199), residue |-> U(\h0),
       codeWord |-> <<67, 82, 67, 49, 48, 65, 84, 77, 221, 128>>,
       codeWordBitLen |-> 74],
      [name |-> "CRC10CDMA2000", check |-> U(\h233), residue |-> U(\h0),
       codeWord |-> <<67, 82, 67, 49, 48, 67, 68, 77, 65, 50, 48, 48, 48, 231, 192>>,
       codeWordBitLen |-> 114],
      [name |-> "CRC11UMTS", check |-> U(\h61), residue |-> U(\h0),
       codeWord |-> <<67, 82, 67, 49, 49, 85, 77, 84, 83, 141, 192>>,
       codeWordBitLen |-> 83],
      [name |-> "CRC11FLEXRAY", check |-> U(\h5a3), residue |-> U(\h0),
       codeWord |-> <<67, 82, 67, 49, 49, 70, 76, 69, 88, 82, 65, 89, 195, 32>>,
       codeWordBitLen |-> 107],
      [name |-> "CRC12DECT", check |-> U(\hf5b), residue |-> U(\h0),
       codeWord |-> <<67, 82, 67, 49, 50, 68, 69, 67, 84, 212, 144>>,
       codeWordBitLen |-> 84],
      [name |-> "CRC12UMTS", check |-> U(\hdaf), residue |-> U(\h0),
       codeWord |-> <<67, 82, 67, 49, 50, 85, 77, 84, 83, 16, 208>>,
       codeWordBitLen |-> 84],
      [name |-> "CRC12GSM", check |-> U(\hb34), residue |-> U(\h178),
       codeWord |-> <<67, 82, 67, 49, 50, 71, 83, 77, 205, 0>>,
       codeWordBitLen |-> 76],
      [name |-> "CRC12CDMA2000", check |-> U(\hd4d), residue |-> U(\h0),
       codeWord |-> <<67, 82, 67, 49, 50, 67, 68, 77, 65, 50, 48, 48, 48, 137, 240>>,
       codeWordBitLen |-> 116],
      [name |-> "CRC13BBC", check |-> U(\h4fa), residue |-> U(\h0),
       codeWord |-> <<67, 82, 67, 49, 51, 66, 66, 67, 23, 104>>,
       codeWordBitLen |-> 77],
      [name |-> "CRC14DARC", check |-> U(\h82d), residue |-> U(\h0),
       codeWord |-> <<67, 82, 67, 49, 52, 68, 65, 82, 67, 28, 63>>,
       codeWordBitLen |-> 86],
      [name |-> "CRC14GSM", check |-> U(\h30ae), residue |-> U(\h31e),
       codeWord |-> <<67, 82, 67, 49, 52, 71, 83, 77, 212, 84>>,
       codeWordBitLen |-> 78],
      [name |-> "CRC15CAN", check |-> U(\h59e), residue |-> U(\h0),
       codeWord |-> <<67, 82, 67, 49, 53, 67, 65, 78, 67, 240>>,
       codeWordBitLen |-> 79],
      [name |-> "CRC15MPT1327", check |-> U(\h2566), residue |-> U(\h6815),
       codeWord |-> <<67, 82, 67, 49, 53, 77, 80, 84, 49, 51, 50, 55, 7, 160>>,
       codeWordBitLen |-> 111],
      [name |-> "CRC16DECTX", check |-> U(\h7f), residue |-> U(\h0),
       codeWord |-> <<67, 82, 67, 49, 54, 68, 69, 67, 84, 88, 109, 161>>,
       codeWordBitLen |-> 96],
      [name |-> "CRC16DECTR", check |-> U(\h7e), residue |-> U(\h589),
       codeWord |-> <<67, 82, 67, 49, 54, 68, 69, 67, 84, 82, 74, 250>>,
       codeWordBitLen |-> 96],
      [name |-> "CRC16NRSC5", check |-> U(\ha066), residue |-> U(\h0),
       codeWord |-> <<67, 82, 67, 49, 54, 78, 82, 83, 67, 53, 39, 37>>,
       codeWordBitLen |-> 96],
      [name |-> "CRC16XMODEM", check |-> U(\h31c3), residue |-> U(\h0),
       codeWord |-> <<67, 82, 67, 49, 54, 88, 77, 79, 68, 69, 77, 210, 152>>,
       codeWordBitLen |-> 104],
      [name |-> "CRC16GSM", check |-> U(\hce3c), residue |-> U(\h1d0f),
       codeWord |-> <<67, 82, 67, 49, 54, 71, 83, 77, 24, 169>>,
       codeWordBitLen |-> 80],
      [name |-> "CRC16SPIFUJITSU", check |-> U(\he5cc), residue |-> U(\h0),
       codeWord |-> <<67, 82, 67, 49, 54, 83, 80, 73, 70, 85, 74, 73, 84, 83, 85, 118, 119>>,
       codeWordBitLen |-> 136],
      [name |-> "CRC16IBM3740", check |-> U(\h29b1), residue |-> U(\h0),
       codeWord |-> <<67, 82, 67, 49, 54, 73, 66, 77, 51, 55, 52, 48, 216, 254>>,
       codeWordBitLen |-> 112],
      [name |-> "CRC16GENIBUS", check |-> U(\hd64e), residue |-> U(\h1d0f),
       codeWord |-> <<67, 82, 67, 49, 54, 71, 69, 78, 73, 66, 85, 83, 78, 226>>,
       codeWordBitLen |-> 112],
      [name |-> "CRC16KERMIT", check |-> U(\h2189), residue |-> U(\h0),
       codeWord |-> <<67, 82, 67, 49, 54, 75, 69, 82, 77, 73, 84, 49, 98>>,
       codeWordBitLen |-> 104],
      [name |-> "CRC16TMS37157", check |-> U(\h26b1), residue |-> U(\h0),
       codeWord |-> <<67, 82, 67, 49, 54, 84, 77, 83, 51, 55, 49, 53, 55, 214, 203>>,
       codeWordBitLen |-> 120],
      [name |-> "CRC16RIELLO", check |-> U(\h63d0), residue |-> U(\h0),
       codeWord |-> <<67, 82, 67, 49, 54, 82, 73, 69, 76, 76, 79, 141, 9>>,
       codeWordBitLen |-> 104],
      [name |-> "CRC16ISOIEC144433A", check |-> U(\hbf05), residue |-> U(\h0),
       codeWord |-> <<67, 82, 67, 49, 54, 73, 83, 79, 73, 69, 67, 49, 52, 52, 52, 51, 51, 65, 7, 245>>,
       codeWordBitLen |-> 160],
      [name |-> "CRC16MCRF4XX", check |-> U(\h6f91), residue |-> U(\h0),
       codeWord |-> <<67, 82, 67, 49, 54, 77, 67, 82, 70, 52, 88, 88, 161, 55>>,
       codeWordBitLen |-> 112],
      [name |-> "CRC16IBMSDLC", check |-> U(\h906e), residue |-> U(\hf0b8),
       codeWord |-> <<67, 82, 67, 49, 54, 73, 66, 77, 83, 68, 76, 67, 50, 12>>,
       codeWordBitLen |-> 112],
      [name |-> "CRC16PROFIBUS", check |-> U(\ha819), residue |-> U(\he394),
       codeWord |-> <<67, 82, 67, 49, 54, 80, 82, 79, 70, 73, 66, 85, 83, 246, 226>>,
       codeWordBitLen |-> 120],
      [name |-> "CRC16EN13757", check |-> U(\hc2b7), residue |-> U(\ha366),
       codeWord |-> <<67, 82, 67, 49, 54, 69, 78, 49, 51, 55, 53, 55, 249, 75>>,
       codeWordBitLen |-> 112],
      [name |-> "CRC16DNP", check |-> U(\hea82), residue |-> U(\h66c5),
       codeWord |-> <<67, 82, 67, 49, 54, 68, 78, 80, 106, 46>>,
       codeWordBitLen |-> 80],
      [name |-> "CRC16OPENSAFETYA", check |-> U(\h5d38), residue |-> U(\h0),
       codeWord |-> <<67, 82, 67, 49, 54, 79, 80, 69, 78, 83, 65, 70, 69, 84, 89, 65, 215, 123>>,
       codeWordBitLen |-> 144],
      [name |-> "CRC16M17", check |-> U(\h772b), residue |-> U(\h0),
       codeWord |-> <<67, 82, 67, 49, 54, 77, 49, 55, 16, 253>>,
       codeWordBitLen |-> 80],
      [name |-> "CRC16LJ1200", check |-> U(\hbdf4), residue |-> U(\h0),
       codeWord |-> <<67, 82, 67, 49, 54, 76, 74, 49, 50, 48, 48, 120, 154>>,
       codeWordBitLen |-> 104],
      [name |-> "CRC16OPENSAFETYB", check |-> U(\h20fe), residue |-> U(\h0),
       codeWord |-> <<67, 82, 67, 49, 54, 79, 80, 69, 78, 83, 65, 70, 69, 84, 89, 66, 156, 169>>,
       codeWordBitLen |-> 144],
      [name |-> "CRC16UMTS", check |-> U(\hfee8), residue |-> U(\h0),
       codeWord |-> <<67, 82, 67, 49, 54, 85, 77, 84, 83, 253, 212>>,
       codeWordBitLen |-> 88],
      [name |-> "CRC16DDS110", check |-> U(\h9ecf), residue |-> U(\h0),
       codeWord |-> <<67, 82, 67, 49, 54, 68, 68, 83, 49, 49, 48, 250, 129>>,
       codeWordBitLen |-> 104],
      [name |-> "CRC16CMS", check |-> U(\haee7), residue |-> U(\h0),
       codeWord |-> <<67, 82, 67, 49, 54, 67, 77, 83, 246, 4>>,
       codeWordBitLen |-> 80],
      [name |-> "CRC16ARC", check |-> U(\hbb3d), residue |-> U(\h0),
       codeWord |-> <<67, 82, 67, 49, 54, 65, 82, 67, 103, 218>>,
       codeWordBitLen |-> 80],
      [name |-> "CRC16MAXIMDOW", check |-> U(\h44c2), residue |-> U(\hb001),
       codeWord |-> <<67, 82, 67, 49, 54, 77, 65, 88, 73, 77, 68, 79, 87, 47, 41>>,
       codeWordBitLen |-> 120],
      [name |-> "CRC16MODBUS", check |-> U(\h4b37), residue |-> U(\h0),
       codeWord |-> <<67, 82, 67, 49, 54, 77, 79, 68, 66, 85, 83, 222, 152>>,
       codeWordBitLen |-> 104],
      [name |-> "CRC16USB", check |-> U(\hb4c8), residue |-> U(\hb001),
       codeWord |-> <<67, 82, 67, 49, 54, 85, 83, 66, 88, 122>>,
       codeWordBitLen |-> 80],
      [name |-> "CRC16T10DIF", check |-> U(\hd0db), residue |-> U(\h0),
       codeWord |-> <<67, 82, 67, 49, 54, 84, 49, 48, 68, 73, 70, 239, 219>>,
       codeWordBitLen |-> 104],
      [name |-> "CRC16TELEDISK", check |-> U(\hfb3), residue |-> U(\h0),
       codeWord |-> <<67, 82, 67, 49, 54, 84, 69, 76, 69, 68, 73, 83, 75, 174, 71>>,
       codeWordBitLen |-> 120],
      [name |-> "CRC16CDMA2000", check |-> U(\h4c06), residue |-> U(\h0),
       codeWord |-> <<67, 82, 67, 49, 54, 67, 68, 77, 65, 50, 48, 48, 48, 10, 212>>,
       codeWordBitLen |-> 120],
      [name |-> "CRC17CANFD", check |-> U(\h4f03), residue |-> U(\h0),
       codeWord |-> <<67, 82, 67, 49, 55, 67, 65, 78, 70, 68, 220, 50, 128>>,
       codeWordBitLen |-> 97],
      [name |-> "CRC21CANFD", check |-> U(\hed841), residue |-> U(\h0),
       codeWord |-> <<67, 82, 67, 50, 49, 67, 65, 78, 70, 68, 161, 46, 184>>,
       codeWordBitLen |-> 101],
      [name |-> "CRC24BLE", check |-> U(\hc25a56), residue |-> U(\h0),
       codeWord |-> <<67, 82, 67, 50, 52, 66, 76, 69, 15, 170, 115>>,
       codeWordBitLen |-> 88],
      [name |-> "CRC24INTERLAKEN", check |-> U(\hb4f3e6), residue |-> U(\h144e63),
       codeWord |-> <<67, 82, 67, 50, 52, 73, 78, 84, 69, 82, 76, 65, 75, 69, 78, 188, 186, 179>>,
       codeWordBitLen |-> 144],
      [name |-> "CRC24FLEXRAYB", check |-> U(\h1f23b8), residue |-> U(\h0),
       codeWord |-> <<67, 82, 67, 50, 52, 70, 76, 69, 88, 82, 65, 89, 66, 88, 96, 238>>,
       codeWordBitLen |-> 128],
      [name |-> "CRC24FLEXRAYA", check |-> U(\h7979bd), residue |-> U(\h0),
       codeWord |-> <<67, 82, 67, 50, 52, 70, 76, 69, 88, 82, 65, 89, 65, 209, 195, 134>>,
       codeWordBitLen |-> 128],
      [name |-> "CRC24LTEB", check |-> U(\h23ef52), residue |-> U(\h0),
       codeWord |-> <<67, 82, 67, 50, 52, 76, 84, 69, 66, 122, 227, 132>>,
       codeWordBitLen |-> 96],
      [name |-> "CRC24OS9", check |-> U(\h200fa5), residue |-> U(\h800fe3),
       codeWord |-> <<67, 82, 67, 50, 52, 79, 83, 57, 124, 168, 250>>,
       codeWordBitLen |-> 88],
      [name |-> "CRC24LTEA", check |-> U(\hcde703), residue |-> U(\h0),
       codeWord |-> <<67, 82, 67, 50, 52, 76, 84, 69, 65, 125, 214, 171>>,
       codeWordBitLen |-> 96],
      [name |-> "CRC24OPENPGP", check |-> U(\h21cf02), residue |-> U(\h0),
       codeWord |-> <<67, 82, 67, 50, 52, 79, 80, 69, 78, 80, 71, 80, 243, 39, 28>>,
       codeWordBitLen |-> 120],
      [name |-> "CRC30CDMA", check |-> U(\h4c34abf), residue |-> U(\h34efa55a),
       codeWord |-> <<67, 82, 67, 51, 48, 67, 68, 77, 65, 144, 34, 104, 64>>,
       codeWordBitLen |-> 102],
      [name |-> "CRC31PHILIPS", check |-> U(\hce9e46c), residue |-> U(\h4eaf26f1),
       codeWord |-> <<67, 82, 67, 51, 49, 80, 72, 73, 76, 73, 80, 83, 111, 76, 24, 18>>,
       codeWordBitLen |-> 127],
      [name |-> "CRC32XFER", check |-> Hex(<<\hbd0b, \he338>>), residue |-> U(\h0),
       codeWord |-> <<67, 82, 67, 51, 50, 88, 70, 69, 82, 5, 159, 31, 90>>,
       codeWordBitLen |-> 104],
      [name |-> "CRC32CKSUM", check |-> U(\h765e7680), residue |-> Hex(<<\hc704, \hdd7b>>),
       codeWord |-> <<67, 82, 67, 51, 50, 67, 75, 83, 85, 77, 37, 17, 89, 142>>,
       codeWordBitLen |-> 112],
      [name |-> "CRC32MPEG2", check |-> U(\h376e6e7), residue |-> U(\h0),
       codeWord |-> <<67, 82, 67, 51, 50, 77, 80, 69, 71, 50, 167, 136, 194, 53>>,
       codeWordBitLen |-> 112],
      [name |-> "CRC32BZIP2", check |-> Hex(<<\hfc89, \h1918>>), residue |-> Hex(<<\hc704, \hdd7b>>),
       codeWord |-> <<67, 82, 67, 51, 50, 66, 90, 73, 80, 50, 137, 180, 146, 70>>,
       codeWordBitLen |-> 112],
      [name |-> "CRC32JAMCRC", check |-> U(\h340bc6d9), residue |-> U(\h0),
       codeWord |-> <<67, 82, 67, 51, 50, 74, 65, 77, 67, 82, 67, 217, 124, 56, 2>>,
       codeWordBitLen |-> 120],
      [name |-> "CRC32ISOHDLC", check |-> Hex(<<\hcbf4, \h3926>>), residue |-> Hex(<<\hdebb, \h20e3>>),
       codeWord |-> <<67, 82, 67, 51, 50, 73, 83, 79, 72, 68, 76, 67, 184, 19, 35, 162>>,
       codeWordBitLen |-> 128],
      [name |-> "CRC32ISCSI", check |-> Hex(<<\he306, \h9283>>), residue |-> Hex(<<\hb798, \hb438>>),
       codeWord |-> <<67, 82, 67, 51, 50, 73, 83, 67, 83, 73, 10, 121, 217, 131>>,
       codeWordBitLen |-> 112],
      [name |-> "CRC32MEF", check |-> Hex(<<\hd2c2, \h2f51>>), residue |-> U(\h0),
       codeWord |-> <<67, 82, 67, 51, 50, 77, 69, 70, 113, 223, 216, 26>>,
       codeWordBitLen |-> 96],
      [name |-> "CRC32CDROMEDC", check |-> U(\h6ec2edc4), residue |-> U(\h0),
       codeWord |-> <<67, 82, 67, 51, 50, 67, 68, 82, 79, 77, 69, 68, 67, 106, 90, 89, 8>>,
       codeWordBitLen |-> 136],
      [name |-> "CRC32AIXM", check |-> U(\h3010bf7f), residue |-> U(\h0),
       codeWord |-> <<67, 82, 67, 51, 50, 65, 73, 88, 77, 26, 101, 5, 233>>,
       codeWordBitLen |-> 104],
      [name |-> "CRC32BASE91D", check |-> Hex(<<\h8731, \h5576>>), residue |-> U(\h45270551),
       codeWord |-> <<67, 82, 67, 51, 50, 66, 65, 83, 69, 57, 49, 68, 3, 164, 17, 34>>,
       codeWordBitLen |-> 128],
      [name |-> "CRC32AUTOSAR", check |-> U(\h1697d06a), residue |-> Hex(<<\h904c, \hddbf>>),
       codeWord |-> <<67, 82, 67, 51, 50, 65, 85, 84, 79, 83, 65, 82, 106, 186, 113, 226>>,
       codeWordBitLen |-> 128],
      [name |-> "CRC40GSM", check |-> Hex(<<\h00d4, \h164f, \hc646>>), residue |-> Hex(<<\h00c4, \hff80, \h71ff>>),
       codeWord |-> <<67, 82, 67, 52, 48, 71, 83, 77, 249, 175, 54, 243, 135>>,
       codeWordBitLen |-> 104],
      [name |-> "CRC64GOISO", check |-> Hex(<<\hb909, \h56c7, \h75a4, \h1001>>), residue |-> Hex(<<\h5300, \h0000, \h0000, \h0000>>),
       codeWord |-> <<67, 82, 67, 54, 52, 71, 79, 73, 83, 79, 49, 23, 196, 7, 170, 147, 210, 114>>,
       codeWordBitLen |-> 144],
      [name |-> "CRC64MS", check |-> Hex(<<\h75d4, \hb74f, \h024e, \hceea>>), residue |-> U(\h0),
       codeWord |-> <<67, 82, 67, 54, 52, 77, 83, 33, 29, 132, 14, 67, 125, 185, 233>>,
       codeWordBitLen |-> 120],
      [name |-> "CRC64ECMA182", check |-> Hex(<<\h6c40, \hdf5f, \h0b49, \h7347>>), residue |-> U(\h0),
       codeWord |-> <<67, 82, 67, 54, 52, 69, 67, 77, 65, 49, 56, 50, 49, 236, 33, 31, 15, 64, 69, 54>>,
       codeWordBitLen |-> 160],
      [name |-> "CRC64WE", check |-> Hex(<<\h62ec, \h59e3, \hf1a4, \hf00a>>), residue |-> Hex(<<\hfcac, \hbebd, \h5931, \ha992>>),
       codeWord |-> <<67, 82, 67, 54, 52, 87, 69, 157, 2, 201, 92, 251, 252, 112, 71>>,
       codeWordBitLen |-> 120],
      [name |-> "CRC64XZ", check |-> Hex(<<\h995d, \hc9bb, \hdf19, \h39fa>>), residue |-> Hex(<<\h4995, \h8c9a, \hbd7d, \h353f>>),
       codeWord |-> <<67, 82, 67, 54, 52, 88, 90, 64, 138, 166, 196, 15, 70, 122, 216>>,
       codeWordBitLen |-> 120],
      [name |-> "CRC64REDIS", check |-> Hex(<<\he9c6, \hd914, \hc4b8, \hd9ca>>), residue |-> U(\h0),
       codeWord |-> <<67, 82, 67, 54, 52, 82, 69, 68, 73, 83, 208, 68, 79, 106, 119, 1, 190, 162>>,
       codeWordBitLen |-> 144]
    >>

\* The parameters of the preset called name.
Preset(name) ==
    (CHOOSE r \in {Presets[i] : i \in DOMAIN Presets} : r.name = name).p

\* The custom engine of the example: NewAlgo[uint16](16, 0xa2eb, 0xffff, 0xffff,
\* true, true).
ZooA2EB == Params(16, 16, U(\ha2eb), U(\hffff), U(\hffff), TRUE, TRUE)

\* a is the engine NewAlgo builds from the parameters p.
IsEngine(a, p) ==
    /\ a.bits = p.bits
    /\ a.width = p.width
    /\ a.refPoly = reflect(p.bits, p.poly, p.width)
    /\ a.refInit = reflect(p.bits, p.init, p.width)
    /\ a.xorout = p.xorout
    /\ a.refin = p.refin
    /\ a.refout = p.refout

---------------------------------------------------------------------------
(* The API used freely: one engine, sessions created from it and updated   *)
(* in any order.                                                           *)

\* At most this many sessions are created.
MaxSessions == 2

\* At most this many Update/UpdateBits calls complete, over all sessions.
MaxCalls == 3

\* The parameters NewAlgo is called with: CRC-5/USB, CRC-3/GSM, CRC-12/UMTS,
\* CRC-16/IBM-SDLC, and a width that does not fit uint8.
Engines ==
    {Preset("CRC5USB"), Preset("CRC3GSM"), Preset("CRC12UMTS"),
     Preset("CRC16IBMSDLC"),
     Params(8, 9, U(\h05), U(\h1f), U(\h1f), TRUE, TRUE)}

\* The data of the Update calls.
UpdateData == {<<49>>, <<50, 253>>}

\* The data and bitLen of the UpdateBits calls: a partial byte, and a bitLen
\* beyond the data.
UpdateBitsArgs ==
    {Call(<<53>>, 2), Call(<<49>>, 9)}

NumCalls == LET RECURSIVE sum(_)
                sum(i) == IF i = 0 THEN 0 ELSE Len(hist[i]) + sum(i - 1)
            IN  sum(Len(hist))

\* No preset is in use: the engine comes from NewAlgo.
NoPreset ==
    /\ preset = [p |-> NoParams, done |-> FALSE, m |-> 0, made |-> 0]
    /\ procs = <<>>

Init ==
    /\ algo = NoAlgo
    /\ err = NoErr
    /\ crcs = <<>>
    /\ hist = <<>>
    /\ ret = NoRet
    /\ script = <<>>
    /\ NoPreset

\* The calls of the free use leave the driver's script empty.
Free(A) == script = <<>> /\ A /\ UNCHANGED <<script, preset, procs>>

FreeNewAlgo == \E p \in Engines : Free(CallNewAlgo(p))

FreeNewCRC == Free(Len(crcs) < MaxSessions /\ CallNewCRC)

FreeUpdate ==
    \E s \in DOMAIN crcs, d \in UpdateData :
        Free(NumCalls < MaxCalls /\ CallUpdate(s, d))

FreeUpdateBits ==
    \E s \in DOMAIN crcs, c \in UpdateBitsArgs :
        Free(NumCalls < MaxCalls /\ CallUpdateBits(s, c.data, c.bitLen))

FreeFinal == \E s \in DOMAIN crcs : Free(CallFinal(s))

FreeResidue == \E s \in DOMAIN crcs : Free(CallResidue(s))

FreeCalc == \E d \in UpdateData : Free(CallCalc(d))

FreeCalcBits ==
    \E c \in UpdateBitsArgs : Free(CallCalcBits(c.data, c.bitLen))

Next ==
    \/ FreeNewAlgo
    \/ FreeNewCRC
    \/ FreeUpdate
    \/ FreeUpdateBits
    \/ FreeFinal
    \/ FreeResidue
    \/ FreeCalc
    \/ FreeCalcBits

Spec == Init /\ [][Next]_vars

---------------------------------------------------------------------------
(* The API used by a driver: the calls of a script, in order.  The scripts *)
(* are those of the tests of src/crc_test.go, with their inputs drawn from *)
(* bounded sets.                                                           *)

\* One call of a script.
Step(op, p, s, data, bitLen) ==
    [op |-> op, p |-> p, s |-> s, data |-> data, bitLen |-> bitLen]

SNewAlgo(p) == Step("NewAlgo", p, 0, <<>>, 0)

SNewCRC == Step("NewCRC", NoParams, 0, <<>>, 0)

SUpdate(s, data) == Step("Update", NoParams, s, data, -1)

SUpdateBits(s, data, bitLen) == Step("UpdateBits", NoParams, s, data, bitLen)

SFinal(s) == Step("Final", NoParams, s, <<>>, 0)

SResidue(s) == Step("Residue", NoParams, s, <<>>, 0)

SCalc(data) == Step("Calc", NoParams, 0, data, -1)

SCalcBits(data, bitLen) == Step("CalcBits", NoParams, 0, data, bitLen)

\* The driver makes the next call of its script.
Run(op, A) ==
    /\ script # <<>>
    /\ Head(script).op = op
    /\ A
    /\ script' = Tail(script)
    /\ UNCHANGED <<preset, procs>>

RunNewAlgo == Run("NewAlgo", CallNewAlgo(Head(script).p))

RunNewCRC == Run("NewCRC", CallNewCRC)

RunUpdate == Run("Update", CallUpdate(Head(script).s, Head(script).data))

RunUpdateBits ==
    Run("UpdateBits",
        CallUpdateBits(Head(script).s, Head(script).data, Head(script).bitLen))

RunFinal == Run("Final", CallFinal(Head(script).s))

RunResidue == Run("Residue", CallResidue(Head(script).s))

RunCalc == Run("Calc", CallCalc(Head(script).data))

RunCalcBits ==
    Run("CalcBits", CallCalcBits(Head(script).data, Head(script).bitLen))

\* The engines NewAlgo returns for the parameters in P.
Built(P) ==
    {NewAlgo(p.bits, p.width, p.poly, p.init, p.xorout, p.refin, p.refout).a :
        p \in P} \ {NoAlgo}

\* The state a driver starts in: it holds one of the engines and has a script.
Start(engines, scripts) ==
    /\ algo \in engines
    /\ err = NoErr
    /\ crcs = <<>>
    /\ hist = <<>>
    /\ ret = NoRet
    /\ script \in scripts
    /\ NoPreset

\* The byte sequences of at most n bytes drawn from the set bytes.
ByteSeqs(bytes, n) == UNION {[1..k -> bytes] : k \in 0..n}

---------------------------------------------------------------------------
(* Chunked against whole input, and the bit lengths of one call.           *)

\* The chunks are at most this many bytes long.
MaxLen == 2

\* Negative bit lengths down to -MaxNeg are tried.
MaxNeg == 2

ChunkBytes == {49, 253}

\* Update(A); Update(B) on one session, Update(A ++ B) on another, and Calc.
ChunkScript(A, B) ==
    <<SNewCRC, SUpdate(1, A), SUpdate(1, B), SFinal(1),
      SNewCRC, SUpdate(2, A \o B), SFinal(2), SCalc(A \o B)>>

\* One chunk with a bit length: one-shot, and on a session.
BitLenScript(D, n) ==
    <<SCalc(D), SCalcBits(D, n),
      SNewCRC, SUpdateBits(1, D, n), SFinal(1)>>

ChunkScripts ==
    {ChunkScript(A, B) :
        A \in ByteSeqs(ChunkBytes, MaxLen), B \in ByteSeqs(ChunkBytes, MaxLen)}
    \cup
    UNION {{BitLenScript(D, n) : n \in (-MaxNeg)..(8 * Len(D) + 2)}
           : D \in ByteSeqs(ChunkBytes, MaxLen)}

ChunksInit == Start(Built(Engines), ChunkScripts)

ChunksNext ==
    \/ RunNewCRC
    \/ RunUpdate
    \/ RunUpdateBits
    \/ RunFinal
    \/ RunCalc
    \/ RunCalcBits

SpecChunks == ChunksInit /\ [][ChunksNext]_vars

---------------------------------------------------------------------------
(* Properties of chunked and whole input.                                  *)

\* The calls of h are all Update calls.
OnlyUpdates(h) == \A i \in DOMAIN h : h[i].bitLen = -1

\* The data of the calls of h, concatenated.
RECURSIVE Fed(_)
Fed(h) == IF h = <<>> THEN <<>> ELSE Head(h).data \o Fed(Tail(h))

\* C1: a session updated with A and then with B returns the same Final() as
\* one updated once with A ++ B, and both return what Calc(A ++ B) returns.
C1_ChunksConcatenate ==
    \A s \in DOMAIN crcs :
        OnlyUpdates(hist[s]) =>
            /\ \A t \in DOMAIN crcs :
                   (OnlyUpdates(hist[t]) /\ Fed(hist[t]) = Fed(hist[s]))
                       => Final(algo, crcs[t].reg) = Final(algo, crcs[s].reg)
            /\ (ret.op = "Calc" /\ ret.data = Fed(hist[s]))
                   => (ret.panic = "" /\ ret.val = Final(algo, crcs[s].reg))
            /\ (ret.op = "Final" /\ ret.s = s)
                   => ret.val = Calc(algo, Fed(hist[s])).val

\* C1's case: two non-empty chunks on one session, their concatenation on
\* another, and Calc of the concatenation just returned.
C1_Witness ==
    /\ ret.op = "Calc"
    /\ \E s, t \in DOMAIN crcs :
           /\ Len(hist[s]) = 2
           /\ hist[s][1].data # <<>>
           /\ hist[s][2].data # <<>>
           /\ Len(hist[t]) = 1
           /\ OnlyUpdates(hist[s])
           /\ OnlyUpdates(hist[t])
           /\ Fed(hist[s]) = hist[t][1].data
           /\ ret.data = Fed(hist[s])

\* C5: Calc(data), CalcBits(data, -1) and CalcBits(data, 8 * len(data)) are
\* equal, and every negative bitLen makes CalcBits and UpdateBits process
\* all the whole bytes of data.
C5_WholeBitLen ==
    /\ (ret.op = "CalcBits" /\ (ret.bitLen < 0 \/ ret.bitLen = 8 * Len(ret.data)))
           => /\ ret.panic = ""
              /\ ret.val = Calc(algo, ret.data).val
              /\ ret.val = CalcBits(algo, ret.data, -1).val
              /\ ret.val = CalcBits(algo, ret.data, 8 * Len(ret.data)).val
    /\ ret.op = "Calc"
           => /\ ret.panic = ""
              /\ ret.val = CalcBits(algo, ret.data, 8 * Len(ret.data)).val
    /\ \A s \in DOMAIN crcs :
           (Len(hist[s]) = 1 /\ hist[s][1].bitLen < 0)
               => Ok(crcs[s].reg) =
                      tblUpd(algo, algo.refInit, hist[s][1].data,
                             8 * Len(hist[s][1].data))

\* C5's case: CalcBits returned for a bitLen below -1 and two bytes of data.
C5_Witness ==
    /\ ret.op = "CalcBits"
    /\ ret.bitLen < -1
    /\ Len(ret.data) = 2
    /\ ret.val # Final(algo, algo.refInit)

\* C7: UpdateBits and CalcBits with a bitLen greater than 8 * len(data)
\* panic: they return no value, and no session ever completes such a call.
C7_BitLenBeyondDataPanics ==
    /\ (ret.op \in {"UpdateBits", "CalcBits"} /\ ret.bitLen > 8 * Len(ret.data))
           => (ret.panic = PanicBitLen /\ ret.val = {})
    /\ \A s \in DOMAIN crcs : \A i \in DOMAIN hist[s] :
           hist[s][i].bitLen <= 8 * Len(hist[s][i].data)

\* C7's case: UpdateBits just panicked on a session, for non-empty data.
C7_Witness ==
    /\ ret.op = "UpdateBits"
    /\ ret.data # <<>>
    /\ ret.bitLen > 8 * Len(ret.data)
    /\ ret.panic = PanicBitLen
    /\ hist[ret.s] = <<>>

---------------------------------------------------------------------------
(* The example of src/crc_test.go: input split inside a byte.              *)

\* "123456789"
Digits == <<49, 50, 51, 52, 53, 54, 55, 56, 57>>

\* The bytes that are split, and the data before and after them.
SplitBytes == {0, 1, 53, 128, 253, 255}

Before == {<<>>, <<49, 50, 51, 52>>}

After == {<<>>, <<54, 55, 56, 57>>}

\* Calc of the whole input; then a session fed A, the k low bits of b, the
\* byte b >> k as 8-k bits, and R.
ExampleScript(A, b, k, R) ==
    <<SCalc(A \o <<b>> \o R), SNewCRC,
      SUpdateBits(1, A \o <<b>>, 8 * Len(A) + k),
      SUpdateBits(1, <<b \div (2 ^ k)>>, 8 - k),
      SUpdate(1, R), SFinal(1)>>

\* Two sessions fed the same bits of two inputs that differ in their last,
\* partial, byte ("1234\x01" and "1234\xfd" with bitLen 34).
PartialScript(A, b1, b2, k) ==
    <<SNewCRC, SUpdateBits(1, A \o <<b1>>, 8 * Len(A) + k), SFinal(1),
      SNewCRC, SUpdateBits(2, A \o <<b2>>, 8 * Len(A) + k), SFinal(2)>>

ExampleScripts ==
    {ExampleScript(A, b, k, R) :
        A \in Before, b \in SplitBytes, k \in 1..7, R \in After}
    \cup
    {PartialScript(<<49, 50, 51, 52>>, b[1], b[2], k) :
        b \in {c \in SplitBytes \X SplitBytes : c[1] # c[2]}, k \in 1..7}

ExampleInit == Start(Built(Engines \cup {ZooA2EB}), ExampleScripts)

ExampleNext ==
    \/ RunNewCRC
    \/ RunUpdate
    \/ RunUpdateBits
    \/ RunFinal
    \/ RunCalc

SpecExample == ExampleInit /\ [][ExampleNext]_vars

\* h is: UpdateBits(A ++ [b], 8*len(A) + k); UpdateBits([b >> k], 8 - k);
\* Update(R), for some k in 1..7.
IsSplit(h) ==
    /\ Len(h) = 3
    /\ h[1].bitLen >= 0
    /\ h[1].bitLen % 8 \in 1..7
    /\ Len(h[1].data) = (h[1].bitLen \div 8) + 1
    /\ h[2].bitLen = 8 - (h[1].bitLen % 8)
    /\ h[2].data = <<h[1].data[Len(h[1].data)] \div (2 ^ (h[1].bitLen % 8))>>
    /\ h[3].bitLen = -1

\* C2: with refin = true, a session fed A and k bits of b, then the other
\* 8-k bits of b as the byte b >> k, then R, returns what Calc(A ++ [b] ++ R)
\* returns; CRC-5/USB gives 0x19 for "123456789" either way.
C2_SplitInsideByte ==
    algo.refin =>
        /\ \A s \in DOMAIN crcs :
               IsSplit(hist[s]) =>
                   LET whole == hist[s][1].data \o hist[s][3].data
                   IN  /\ Ok(Final(algo, crcs[s].reg)) = Calc(algo, whole)
                       /\ (ret.op = "Final" /\ ret.s = s)
                              => ret.val = Calc(algo, whole).val
                       /\ (IsEngine(algo, Preset("CRC5USB")) /\ whole = Digits)
                              => Final(algo, crcs[s].reg) = U(\h19)
        /\ (ret.op = "Calc" /\ ret.data = Digits
                /\ IsEngine(algo, Preset("CRC5USB")))
               => ret.val = U(\h19)

\* C2's case: the example itself, Final() just returned.
C2_Witness ==
    /\ IsEngine(algo, Preset("CRC5USB"))
    /\ ret.op = "Final"
    /\ hist[ret.s] = <<Call(<<49, 50, 51, 52, 53>>, 34), Call(<<13>>, 6),
                       Call(<<54, 55, 56, 57>>, -1)>>
    /\ ret.val = U(\h19)

\* The last call of h ends k bits into the byte it returns (k in 1..7).
PartialBits(h) == h[Len(h)].bitLen % 8

PartialByte(h) == h[Len(h)].data[(h[Len(h)].bitLen \div 8) + 1]

\* g and h are one UpdateBits call each, with the same bitLen ending inside
\* a byte, and the same data before that byte.
SamePartial(g, h) ==
    /\ Len(g) = 1
    /\ Len(h) = 1
    /\ g[1].bitLen = h[1].bitLen
    /\ g[1].bitLen >= 0
    /\ PartialBits(g) \in 1..7
    /\ SubSeq(g[1].data, 1, g[1].bitLen \div 8)
           = SubSeq(h[1].data, 1, h[1].bitLen \div 8)

\* C8 as claimed: whatever refin is, inputs that agree on the k low bits of
\* the partial byte give the same register and the same Final().
C8_LowBitsWhateverRefin ==
    \A s, t \in DOMAIN crcs :
        (/\ SamePartial(hist[s], hist[t])
         /\ PartialByte(hist[s]) % (2 ^ PartialBits(hist[s]))
                = PartialByte(hist[t]) % (2 ^ PartialBits(hist[s])))
            => /\ crcs[s].reg = crcs[t].reg
               /\ Final(algo, crcs[s].reg) = Final(algo, crcs[t].reg)

\* C8 amended: the k bits folded in are the k low bits of the partial byte
\* when refin is true and its k high bits when refin is false; inputs that
\* agree on those give the same register and the same Final().
C8_UsedBitsOfPartialByte ==
    \A s, t \in DOMAIN crcs :
        SamePartial(hist[s], hist[t]) =>
            LET k == PartialBits(hist[s])
                b == PartialByte(hist[s])
                c == PartialByte(hist[t])
            IN  (IF algo.refin
                 THEN b % (2 ^ k) = c % (2 ^ k)
                 ELSE b \div (2 ^ (8 - k)) = c \div (2 ^ (8 - k)))
                    => /\ crcs[s].reg = crcs[t].reg
                       /\ Final(algo, crcs[s].reg) = Final(algo, crcs[t].reg)

\* C8's case: refin = false, two sessions fed partial bytes that differ in
\* their low bits and agree in the k high ones.
C8_Witness ==
    /\ ~algo.refin
    /\ \E s, t \in DOMAIN crcs :
           /\ SamePartial(hist[s], hist[t])
           /\ PartialByte(hist[s]) # PartialByte(hist[t])
           /\ PartialByte(hist[s]) \div (2 ^ (8 - PartialBits(hist[s])))
                  = PartialByte(hist[t]) \div (2 ^ (8 - PartialBits(hist[s])))
           /\ crcs[s].reg # algo.refInit

---------------------------------------------------------------------------
(* The tests TestCRC and TestResidue of src/crc_test.go, over the presets  *)
(* and the custom engine of the example.                                   *)

\* The messages a codeword is built from, besides those of the test table.
Messages == {<<>>, <<49>>, Digits}

\* The row of the test table for the preset called name.
TestRow(name) ==
    CHOOSE r \in {presets[i] : i \in DOMAIN presets} : r.name = name

\* The width bits of crc as the bytes UpdateBits consumes them: least
\* significant bit first, in the low bits of each byte, when refin is true;
\* most significant bit first, in the high bits of each byte, when it is false.
CrcBytes(a, crc) ==
    [j \in 1..((a.width + 7) \div 8) |->
        ToNat({IF a.refin THEN q ELSE 7 - q :
                  q \in {r \in 0..7 :
                            /\ 8 * (j - 1) + r < a.width
                            /\ (IF a.refin THEN 8 * (j - 1) + r
                                           ELSE a.width - 1 - (8 * (j - 1) + r))
                                   \in crc}})]

\* TestCRC: the check value, by Calc and by CalcBits with bitLen -1.
CheckScript == <<SCalc(Digits), SCalcBits(Digits, -1)>>

\* TestResidue: the codeword of the row, fed in one call.
ResidueScript(row) ==
    <<SNewCRC, SUpdateBits(1, row.codeWord, row.codeWordBitLen), SResidue(1)>>

\* A session fed M and then the width bits of Final(M).
CodewordScript(a, M) ==
    <<SNewCRC, SUpdate(1, M), SFinal(1),
      SUpdateBits(1, CrcBytes(a, Calc(a, M).val), a.width), SResidue(1),
      SFinal(1)>>

\* The engine built from p, with the scripts of the tests in rows.
Tests(p, rows) ==
    LET a == NewAlgo(p.bits, p.width, p.poly, p.init, p.xorout,
                     p.refin, p.refout).a
    IN  /\ algo = a
        /\ err = NoErr
        /\ crcs = <<>>
        /\ hist = <<>>
        /\ ret = NoRet
        /\ script \in {CheckScript}
                        \cup {ResidueScript(r) : r \in rows}
                        \cup {CodewordScript(a, M) : M \in Messages}
        /\ NoPreset

CatalogueInit ==
    \/ \E i \in DOMAIN Presets :
           Tests(Presets[i].p, {TestRow(Presets[i].name)})
    \/ Tests(ZooA2EB, {})

CatalogueNext ==
    \/ RunNewCRC
    \/ RunUpdate
    \/ RunUpdateBits
    \/ RunResidue
    \/ RunFinal
    \/ RunCalc
    \/ RunCalcBits

SpecCatalogue == CatalogueInit /\ [][CatalogueNext]_vars

\* C3: Calc, and CalcBits with bitLen -1, of "123456789" return the check
\* value the test table lists for the preset, and 0x4e4c for the custom
\* engine NewAlgo(16, 0xa2eb, 0xffff, 0xffff, true, true).
C3_CheckValues ==
    (ret.op \in {"Calc", "CalcBits"} /\ ret.data = Digits /\ ret.bitLen = -1)
        => /\ ret.panic = ""
           /\ \A i \in DOMAIN Presets :
                  IsEngine(algo, Presets[i].p)
                      => ret.val = TestRow(Presets[i].name).check
           /\ IsEngine(algo, Preset("CRC3GSM")) => ret.val = U(\h4)
           /\ IsEngine(algo, Preset("CRC5USB")) => ret.val = U(\h19)
           /\ IsEngine(algo, Preset("CRC8SMBUS")) => ret.val = U(\hf4)
           /\ IsEngine(algo, Preset("CRC12UMTS")) => ret.val = U(\hdaf)
           /\ IsEngine(algo, Preset("CRC16ARC")) => ret.val = U(\hbb3d)
           /\ IsEngine(algo, Preset("CRC16XMODEM")) => ret.val = U(\h31c3)
           /\ IsEngine(algo, Preset("CRC32ISOHDLC"))
                  => ret.val = Hex(<<\hcbf4, \h3926>>)
           /\ IsEngine(algo, ZooA2EB) => ret.val = U(\h4e4c)

\* C3's case: CalcBits of "123456789" just returned for CRC-32/ISO-HDLC.
C3_Witness ==
    /\ IsEngine(algo, Preset("CRC32ISOHDLC"))
    /\ ret.op = "CalcBits"
    /\ ret.data = Digits
    /\ ret.val = Hex(<<\hcbf4, \h3926>>)

\* h feeds a message M and then the width bits of Final(M): in two calls,
\* or in one call whose data is M followed by those bits.
IsCodeword(a, h) ==
    \/ /\ Len(h) = 2
       /\ h[1].bitLen = -1
       /\ h[2].bitLen = a.width
       /\ h[2].data = CrcBytes(a, Calc(a, h[1].data).val)
    \/ /\ Len(h) = 1
       /\ h[1].bitLen >= a.width
       /\ (h[1].bitLen - a.width) % 8 = 0
       /\ LET m == (h[1].bitLen - a.width) \div 8
          IN  /\ Len(h[1].data) = m + ((a.width + 7) \div 8)
              /\ SubSeq(h[1].data, m + 1, Len(h[1].data))
                     = CrcBytes(a, Calc(a, SubSeq(h[1].data, 1, m)).val)

\* The residue of the codeword of the empty message.
ResidueConstant(a) ==
    Residue(a, tblUpd(a, a.refInit,
                      CrcBytes(a, Calc(a, <<>>).val), a.width).val)

\* C4: with refin = refout, a session fed M and then the width bits of
\* Final(M) in input bit order has the same Residue() for every M: the one
\* the test table lists for the preset, which is 0 whenever xorout = 0.
C4_CodewordResidue ==
    algo.refin = algo.refout =>
        \A s \in DOMAIN crcs :
            IsCodeword(algo, hist[s]) =>
                LET r == Residue(algo, crcs[s].reg)
                IN  /\ r = ResidueConstant(algo)
                    /\ algo.xorout = {} => r = {}
                    /\ \A i \in DOMAIN Presets :
                           IsEngine(algo, Presets[i].p)
                               => r = TestRow(Presets[i].name).residue
                    /\ IsEngine(algo, Preset("CRC5USB")) => r = U(\h06)
                    /\ IsEngine(algo, Preset("CRC3GSM")) => r = U(\h2)
                    /\ IsEngine(algo, Preset("CRC16IBMSDLC")) => r = U(\hf0b8)
                    /\ IsEngine(algo, Preset("CRC16ARC")) => r = U(\h0)
                    /\ (ret.op = "Residue" /\ ret.s = s) => ret.val = r

\* C4's case: Residue() just returned 0xf0b8 for CRC-16/IBM-SDLC fed
\* "123456789" and then the 16 bits of its CRC.
C4_Witness ==
    /\ IsEngine(algo, Preset("CRC16IBMSDLC"))
    /\ ret.op = "Residue"
    /\ IsCodeword(algo, hist[ret.s])
    /\ hist[ret.s][1].data = Digits
    /\ ret.val = U(\hf0b8)

---------------------------------------------------------------------------
(* NewAlgo over a grid of parameters, valid and not.                       *)

\* The bit widths of the types of UInt.
UIntBits == {8, 16, 32, 64}

\* The widths tried for a type of `bits` bits: around 0 and around bits.
WidthsOf(bits) == {-1, 0, 1, 2, bits - 1, bits, bits + 1, bits + 2}

\* The values tried for poly, init and xorout: 0, the largest value of
\* `width` bits, the power of two above it, and the largest value of T.
ValuesOf(bits, width) ==
    {{}, {i \in 0..(bits - 1) : i < width}, {width} \cap 0..(bits - 1),
     0..(bits - 1)}

ParamGrid ==
    UNION {UNION {{Params(bits, width, poly, init, xorout, refin, refin) :
                      poly \in ValuesOf(bits, width),
                      init \in ValuesOf(bits, width),
                      xorout \in ValuesOf(bits, width),
                      refin \in BOOLEAN}
                  : width \in WidthsOf(bits)}
           : bits \in UIntBits}

\* The parameters of the presets.
CatalogueParams == {Presets[i].p : i \in DOMAIN Presets}

ParamsInit ==
    Start({NoAlgo}, {<<SNewAlgo(p)>> : p \in ParamGrid \cup CatalogueParams})

ParamsNext == RunNewAlgo

SpecParams == ParamsInit /\ [][ParamsNext]_vars

\* v is greater than (1 << width) - 1: it has a 1 bit at position width or
\* above.
Exceeds(v, width) == \E i \in v : i >= width

\* C6: NewAlgo returns an error and no engine, without a panic, when
\* width <= 0, when width exceeds the bit width of T, and when poly, init or
\* xorout is greater than (1 << width) - 1.
C6_InvalidParametersRejected ==
    ret.op = "NewAlgo" =>
        ((\/ ret.p.width <= 0
          \/ ret.p.width > ret.p.bits
          \/ Exceeds(ret.p.poly, ret.p.width)
          \/ Exceeds(ret.p.init, ret.p.width)
          \/ Exceeds(ret.p.xorout, ret.p.width))
             => /\ algo = NoAlgo
                /\ err \in {ErrWidth, ErrRange}
                /\ ret.panic = "")

\* C6's case: NewAlgo[uint16] returned the range error for a xorout of 2^15
\* with width 15.
C6_Witness ==
    /\ ret.op = "NewAlgo"
    /\ ret.p.bits = 16
    /\ ret.p.width = 15
    /\ ret.p.poly = {}
    /\ ret.p.init = {}
    /\ ret.p.xorout = {15}
    /\ algo = NoAlgo
    /\ err = ErrRange

---------------------------------------------------------------------------
(* Residue and Final, and sessions that share an engine.                   *)

\* The low n bits of v in reverse order: bit j of the result is bit n-1-j
\* of v, and the bits at n and above are 0.
Mirror(v, n) == {n - 1 - j : j \in {i \in v : i < n}}

\* C9: Residue() returns the register when refout is true and the register
\* with its width bits reversed when refout is false; Final() returns that
\* value XOR xorout.
C9_ResidueFinal ==
    \A s \in DOMAIN crcs :
        LET reg == crcs[s].reg
            res == IF algo.refout THEN reg ELSE Mirror(reg, algo.width)
            fin == (res \ algo.xorout) \cup (algo.xorout \ res)
        IN  /\ Residue(algo, reg) = res
            /\ Final(algo, reg) = fin
            /\ (ret.op = "Residue" /\ ret.s = s) => ret.val = res
            /\ (ret.op = "Final" /\ ret.s = s) => ret.val = fin

\* C9's case: Final() just returned on an engine whose refout is false and
\* whose xorout is not 0, for a register that is not its own mirror image.
C9_Witness ==
    /\ ret.op = "Final"
    /\ ~algo.refout
    /\ algo.xorout # {}
    /\ algo.width > 8
    /\ crcs[ret.s].reg # Mirror(crcs[ret.s].reg, algo.width)
    /\ ret.val # crcs[ret.s].reg

\* The register of a fresh session of engine a after the calls of h alone.
RECURSIVE Replay(_, _, _)
Replay(a, reg, h) ==
    IF h = <<>>
    THEN reg
    ELSE Replay(a, tblUpd(a, reg, Head(h).data, Head(h).bitLen).val, Tail(h))

\* Every session is where its own calls alone bring a fresh session.
SessionsIndependent ==
    \A s \in DOMAIN crcs :
        /\ crcs[s].reg = Replay(algo, algo.refInit, hist[s])
        /\ (ret.op = "Final" /\ ret.s = s)
               => ret.val = Final(algo, Replay(algo, algo.refInit, hist[s]))

\* No call changes an engine once it is built.
EngineImmutable == algo # NoAlgo => algo' = algo

\* C10: sessions created from one engine do not affect each other, whatever
\* the order of their calls, and no call changes the engine (its table,
\* refPoly, refInit, xorout).
C10_SharedEngine == []SessionsIndependent /\ [][EngineImmutable]_vars

\* C10's case: two sessions of one engine, both updated, the first twice;
\* the last call was on the first and left the registers different.
C10_Witness ==
    /\ Len(crcs) = 2
    /\ Len(hist[1]) = 2
    /\ Len(hist[2]) = 1
    /\ ret.op \in {"Update", "UpdateBits"}
    /\ ret.s = 1
    /\ ret.panic = ""
    /\ crcs[1].reg # crcs[2].reg

---------------------------------------------------------------------------
(* A preset: goroutines call its methods at the same time.  Every method   *)
(* goes through preset.Algo, which builds the engine inside algoOnce.Do;   *)
(* algo is the field p.algo.  Once.Do(f) loads the done flag; when it is   *)
(* not set it locks the mutex, loads the flag again, runs f when it is     *)
(* still not set, stores the flag and unlocks.                             *)

\* The goroutines that call the preset.
MaxProcs == 2

\* The presets the goroutines call.
PresetParams == {Preset("CRC5USB"), Preset("CRC3GSM")}

\* The methods of a preset.
PresetOps == {"Algo", "NewCRC", "Calc", "CalcBits"}

\* A goroutine: where it is, the method it called, the engine f built (not
\* yet assigned), the engine Algo() returned, the value of the method, and
\* whether it panicked.
Proc(pc, op, a, got, val, panic) ==
    [pc |-> pc, op |-> op, a |-> a, got |-> got, val |-> val, panic |-> panic]

PresetInit ==
    /\ algo = NoAlgo
    /\ err = NoErr
    /\ crcs = <<>>
    /\ hist = <<>>
    /\ ret = NoRet
    /\ script = <<>>
    /\ preset \in {[p |-> q, done |-> FALSE, m |-> 0, made |-> 0] :
                      q \in PresetParams}
    /\ procs = [t \in 1..MaxProcs |-> Proc("idle", "", NoAlgo, NoAlgo, {}, "")]

\* Goroutine t goes from pc to next.
Goto(t, pc, next) ==
    /\ procs[t].pc = pc
    /\ procs' = [procs EXCEPT ![t].pc = next]

\* Goroutine t calls a method of the preset: the method calls p.Algo(), and
\* that calls p.algoOnce.Do.
PresetCall(t, op) ==
    /\ procs[t].pc = "idle"
    /\ procs' = [procs EXCEPT ![t].pc = "Do", ![t].op = op]
    /\ UNCHANGED <<algo, preset>>

\* Once.Do: the done flag is set, so Do returns.
OnceDoFast(t) ==
    /\ preset.done
    /\ Goto(t, "Do", "return")
    /\ UNCHANGED <<algo, preset>>

\* Once.Do: the done flag is not set, so Do goes on to lock the mutex.
OnceDoSlow(t) ==
    /\ ~preset.done
    /\ Goto(t, "Do", "lock")
    /\ UNCHANGED <<algo, preset>>

\* The lock taken without waiting for the goroutine that holds it.
OnceLockNoWait(t) ==
    /\ Goto(t, "lock", IF preset.done THEN "unlock" ELSE "f")
    /\ preset' = [preset EXCEPT !.m = t]
    /\ UNCHANGED algo

\* Once.Do: the mutex is free; t locks it and loads the done flag again.
OnceLock(t) ==
    /\ preset.m = 0
    /\ Goto(t, "lock", IF preset.done THEN "unlock" ELSE "f")
    /\ preset' = [preset EXCEPT !.m = t]
    /\ UNCHANGED algo

\* The function given to Do: a, err := NewAlgo(...); it panics on an error.
OnceF(t) ==
    /\ procs[t].pc = "f"
    /\ LET p == preset.p
           r == NewAlgo(p.bits, p.width, p.poly, p.init, p.xorout,
                        p.refin, p.refout)
       IN  procs' = [procs EXCEPT
                        ![t].pc    = IF r.err = NoErr THEN "assign" ELSE "store",
                        ![t].a     = r.a,
                        ![t].panic = IF r.err = NoErr THEN ""
                                     ELSE "invalid CRC preset"]
    /\ preset' = [preset EXCEPT !.made = @ + 1]
    /\ UNCHANGED algo

\* The function given to Do: p.algo = a.
OnceAssign(t) ==
    /\ Goto(t, "assign", "store")
    /\ algo' = procs[t].a
    /\ UNCHANGED preset

\* Once.Do: the deferred store of the done flag.
OnceStore(t) ==
    /\ Goto(t, "store", "unlock")
    /\ preset' = [preset EXCEPT !.done = TRUE]
    /\ UNCHANGED algo

\* Once.Do: the deferred unlock; a panic of f goes on to the caller.
OnceUnlock(t) ==
    /\ Goto(t, "unlock", IF procs[t].panic = "" THEN "return" ELSE "done")
    /\ preset' = [preset EXCEPT !.m = 0]
    /\ UNCHANGED algo

\* preset.Algo returns p.algo, and the method t called is applied to it:
\* NewCRC gives a session (its register), Calc and CalcBits a value, and a
\* nil engine a panic.
AlgoReturn(t) ==
    /\ procs[t].pc = "return"
    /\ \E c \in UpdateBitsArgs :
           LET op == procs[t].op
               r  == IF op = "Algo" THEN Ok({})
                     ELSE IF algo = NoAlgo
                          THEN Panic("nil pointer dereference")
                     ELSE IF op = "NewCRC" THEN Ok(algo.refInit)
                     ELSE IF op = "Calc" THEN Calc(algo, c.data)
                     ELSE CalcBits(algo, c.data, c.bitLen)
           IN  procs' = [procs EXCEPT ![t].pc    = "done",
                                      ![t].got   = algo,
                                      ![t].val   = r.val,
                                      ![t].panic = r.panic]
    /\ UNCHANGED <<algo, preset>>

\* A step of goroutine t.
PresetStep(A) == A /\ UNCHANGED <<err, crcs, hist, ret, script>>

GoCall == \E t \in DOMAIN procs, op \in PresetOps : PresetStep(PresetCall(t, op))

GoDoFast == \E t \in DOMAIN procs : PresetStep(OnceDoFast(t))

GoDoSlow == \E t \in DOMAIN procs : PresetStep(OnceDoSlow(t))

GoLock == \E t \in DOMAIN procs : PresetStep(OnceLock(t))

GoF == \E t \in DOMAIN procs : PresetStep(OnceF(t))

GoAssign == \E t \in DOMAIN procs : PresetStep(OnceAssign(t))

GoStore == \E t \in DOMAIN procs : PresetStep(OnceStore(t))

GoUnlock == \E t \in DOMAIN procs : PresetStep(OnceUnlock(t))

GoReturn == \E t \in DOMAIN procs : PresetStep(AlgoReturn(t))

PresetNext ==
    \/ GoCall
    \/ GoDoFast
    \/ GoDoSlow
    \/ GoLock
    \/ GoF
    \/ GoAssign
    \/ GoStore
    \/ GoUnlock
    \/ GoReturn

SpecPreset == PresetInit /\ [][PresetNext]_vars

\* a is a fully built engine of the parameters p: its fields and its 256
\* table entries are those NewAlgo computes.
FullyBuilt(a, p) ==
    /\ a # NoAlgo
    /\ IsEngine(a, p)
    /\ DOMAIN a.table = 0..255
    /\ a.table[0] = {}
    /\ \A i \in {1, 2, 53, 128, 255} : a.table[i] = bbbUpd(a, Byte(i), 0, 8)

\* C11: under every interleaving of first calls to Algo, NewCRC, Calc and
\* CalcBits of a preset, NewAlgo runs at most once, every call gets the same
\* fully built engine from Algo() and none panics; while no method has been
\* called no engine is built.
C11_PresetBuildsOnce ==
    /\ preset.made <= 1
    /\ \A t \in DOMAIN procs :
           procs[t].pc = "done"
               => /\ FullyBuilt(procs[t].got, preset.p)
                  /\ procs[t].got = algo
                  /\ procs[t].panic \in {"", PanicBitLen}
                  /\ procs[t].panic = PanicBitLen => procs[t].op = "CalcBits"
    /\ (\A t \in DOMAIN procs : procs[t].pc = "idle")
           => preset.made = 0 /\ algo = NoAlgo

\* C11's case: two goroutines both found the done flag not set; one built
\* the engine while the other waited for the mutex, and both have returned.
C11_Witness ==
    /\ MaxProcs >= 2
    /\ procs[1].pc = "done"
    /\ procs[2].pc = "done"
    /\ procs[1].op = "Calc"
    /\ procs[2].op = "NewCRC"
    /\ preset.made = 1
    /\ preset.m = 0

---------------------------------------------------------------------------
(* The table of a constructed engine.                                      *)

\* NewAlgo has just returned an engine.
Constructed == ret.op = "NewAlgo" /\ algo # NoAlgo

\* C12 as stated: for either value of refin, table[0] = 0 and table[i] is
\* the bit-by-bit update of register 0 with input byte i and bit count 8.
C12_TableOfInputByte ==
    Constructed =>
        /\ algo.table[0] = {}
        /\ \A i \in 0..255 : algo.table[i] = bbbUpd(algo, {}, i, 8)

\* C12, amended: table[0] = 0 and table[i] is the bit-by-bit update of
\* register i with input byte 0 and bit count 8; that is the update of
\* register 0 with input byte i when refin is true, and with the input byte
\* reflect(i, 8) when refin is false.
C12_TableOfRegister ==
    Constructed =>
        /\ algo.table[0] = {}
        /\ DOMAIN algo.table = 0..255
        /\ \A i \in 0..255 :
               /\ algo.table[i] = bbbUpd(algo, Byte(i), 0, 8)
               /\ algo.table[i] =
                      bbbUpd(algo, {},
                             IF algo.refin THEN i
                             ELSE ToNat(Mirror(Byte(i), 8)), 8)

\* C12's case: NewAlgo built CRC-16/XMODEM, an engine whose refin is false,
\* and its table entry 1 is not the update of register 0 with input byte 1.
C12_Witness ==
    /\ Constructed
    /\ IsEngine(algo, Preset("CRC16XMODEM"))
    /\ algo.table[1] # {}
    /\ algo.table[1] # bbbUpd(algo, {}, 1, 8)
    /\ algo.table[1] = bbbUpd(algo, {}, 128, 8)

---------------------------------------------------------------------------
(* reflect and reflectedBytes, called with values of every type of UInt.   *)

\* reflect[T](val, numBits); the outcome keeps T's bits and val in p.
CallReflect(bits, val, numBits) ==
    /\ ret' = [Outcome("reflect", 0, <<>>, numBits,
                       Ok(reflect(bits, val, numBits)))
                  EXCEPT !.p = Params(bits, numBits, val, {}, {}, FALSE, FALSE)]
    /\ UNCHANGED <<algo, err, crcs, hist>>

\* reflectedBytes[b], as tblUpd and bbbUpd read it.
CallReflectedByte(b) ==
    /\ ret' = Outcome("reflectedBytes", 0, <<b>>, 0, Ok(Byte(reflectedBytes[b])))
    /\ UNCHANGED <<algo, err, crcs, hist>>

SReflect(bits, val, numBits) ==
    Step("reflect", Params(bits, numBits, val, {}, {}, FALSE, FALSE),
         0, <<>>, numBits)

SReflectedByte(b) == Step("reflectedBytes", NoParams, 0, <<b>>, 0)

RunReflect ==
    Run("reflect", CallReflect(Head(script).p.bits, Head(script).p.poly,
                               Head(script).bitLen))

RunReflectedByte == Run("reflectedBytes", CallReflectedByte(Head(script).data[1]))

\* The values reflected: every value of uint8; of the wider types 0, the
\* largest value, the single bits, and the runs of low and of high bits.
ReflectValues(bits) ==
    IF bits = 8
    THEN SUBSET (0..7)
    ELSE {{}} \cup {{k} : k \in 0..(bits - 1)}
              \cup {0..k : k \in 0..(bits - 1)}
              \cup {k..(bits - 1) : k \in 0..(bits - 1)}

ReflectScripts ==
    UNION {{<<SReflect(bits, v, n)>> :
               v \in ReflectValues(bits), n \in 1..bits} : bits \in UIntBits}
        \cup {<<SReflectedByte(b)>> : b \in 0..255}

ReflectInit == Start({NoAlgo}, ReflectScripts)

ReflectNext ==
    \/ RunReflect
    \/ RunReflectedByte

SpecReflect == ReflectInit /\ [][ReflectNext]_vars

\* C13: bit j of reflect(v, numBits) is bit numBits-1-j of v for j below
\* numBits, and the bits at numBits and above are 0; reflectedBytes[b] is
\* reflect(b, 8) for every byte b, 0 included.
C13_ReflectMirrors ==
    /\ ret.op = "reflect"
           => /\ ret.val = Mirror(ret.p.poly, ret.bitLen)
              /\ \A j \in 0..(ret.p.bits - 1) :
                     j \in ret.val <=> /\ j < ret.bitLen
                                       /\ (ret.bitLen - 1 - j) \in ret.p.poly
    /\ ret.op = "reflectedBytes"
           => /\ ret.val = reflect(8, Byte(ret.data[1]), 8)
              /\ ret.val = Mirror(Byte(ret.data[1]), 8)

\* C13's case: reflect[uint64] of a value with bits at and above numBits has
\* returned; the bits below numBits came back reversed and the others as 0.
C13_Witness ==
    /\ ret.op = "reflect"
    /\ ret.p.bits = 64
    /\ ret.bitLen = 40
    /\ ret.p.poly = 3..63
    /\ ret.val = 0..36

---------------------------------------------------------------------------
(* One byte through the table, after a first update that leaves the        *)
(* register anywhere: no bits, a partial byte, or a whole byte.            *)

\* The engines: those of the free use, and full-width uint8 and uint32 ones.
StepEngines == Engines \cup {Preset("CRC8SMBUS"), Preset("CRC32ISOHDLC")}

\* The byte and the bit lengths of the first update.
FirstByte == 253

FirstBits == {0, 3, 8}

StepScripts ==
    {<<SNewCRC, SUpdateBits(1, <<FirstByte>>, k), SUpdate(1, <<b>>)>> :
        k \in FirstBits, b \in 0..255}

StepInit == Start(Built(StepEngines), StepScripts)

StepNext ==
    \/ RunNewCRC
    \/ RunUpdateBits
    \/ RunUpdate

SpecStep == StepInit /\ [][StepNext]_vars

\* The calls of h but the last.
Front(h) == SubSeq(h, 1, Len(h) - 1)

\* The last call of h is an Update of one byte.
OneByteLast(h) ==
    /\ h # <<>>
    /\ h[Len(h)].bitLen = -1
    /\ Len(h[Len(h)].data) = 1

\* C14: the table-driven step table[lowByte(reg) XOR b'] XOR (reg >> 8),
\* b' being b when refin is true and b bit-reversed when it is false, leaves
\* the register that the bit-by-bit update bbbUpd(reg, b, 8) leaves.
C14_TableStepIsBitByBit ==
    \A s \in DOMAIN crcs :
        OneByteLast(hist[s]) =>
            LET reg == Replay(algo, algo.refInit, Front(hist[s]))
                b   == hist[s][Len(hist[s])].data[1]
                b1  == IF algo.refin THEN Byte(b) ELSE Mirror(Byte(b), 8)
                low == {i \in reg : i < 8}
                idx == ToNat((low \ b1) \cup (b1 \ low))
                hi  == {i - 8 : i \in {j \in reg : j >= 8}}
                tbl == (algo.table[idx] \ hi) \cup (hi \ algo.table[idx])
            IN  /\ crcs[s].reg = tbl
                /\ crcs[s].reg = bbbUpd(algo, reg, b, 8)

\* C14's case: a uint8 engine of width 3 whose refin is false took one byte
\* through its table after a partial byte, and the register changed.
C14_Witness ==
    /\ IsEngine(algo, Preset("CRC3GSM"))
    /\ Len(crcs) = 1
    /\ Len(hist[1]) = 2
    /\ hist[1][1].bitLen = 3
    /\ OneByteLast(hist[1])
    /\ hist[1][2].data = <<53>>
    /\ crcs[1].reg # Replay(algo, algo.refInit, Front(hist[1]))

---------------------------------------------------------------------------
(* A session updated three times, the first two updates ending at every    *)
(* bit position of their data.                                             *)

FirstData == {<<>>, <<253>>, <<49, 50>>}

SecondData == <<53>>

LastData == {<<>>, <<54>>}

BitsScripts ==
    {<<SNewCRC, SUpdateBits(1, c[1], c[2]), SUpdateBits(1, SecondData, c[3]),
       SUpdate(1, c[4]), SFinal(1)>> :
        c \in {d \in FirstData \X ((-MaxNeg)..16) \X ((-MaxNeg)..8) \X LastData :
                  d[2] <= 8 * Len(d[1])}}

BitsInit == Start(Built(Engines), BitsScripts)

BitsNext ==
    \/ RunNewCRC
    \/ RunUpdateBits
    \/ RunUpdate
    \/ RunFinal

SpecBits == BitsInit /\ [][BitsNext]_vars

\* The number of bits the call c consumes.
NumBits(c) == IF c.bitLen < 0 THEN 8 * Len(c.data) ELSE c.bitLen

\* Bit q (from 0) of the input of call c of engine a: within a byte the
\* least significant bit comes first when refin is true, the most
\* significant when it is false.
InputBit(a, c, q) ==
    LET b   == c.data[(q \div 8) + 1]
        pos == IF a.refin THEN q % 8 ELSE 7 - (q % 8)
    IN  (b \div (2 ^ pos)) % 2 = 1

\* The one-bit recurrence: XOR the input bit into bit 0, then shift right,
\* and XOR refPoly if bit 0 was 1.
SerialStep(a, reg, bit) ==
    LET r  == IF bit THEN (reg \ {0}) \cup ({0} \ reg) ELSE reg
        sh == {i - 1 : i \in r \ {0}}
    IN  IF 0 \in r THEN (sh \ a.refPoly) \cup (a.refPoly \ sh) ELSE sh

\* The recurrence over the bits of the calls of h, from bit st.q of call
\* st.k, the register being st.reg.
RECURSIVE Serial(_, _, _)
Serial(a, st, h) ==
    IF st.k > Len(h)
    THEN st.reg
    ELSE IF st.q >= NumBits(h[st.k])
         THEN Serial(a, [k |-> st.k + 1, q |-> 0, reg |-> st.reg], h)
         ELSE Serial(a, [k   |-> st.k,
                         q   |-> st.q + 1,
                         reg |-> SerialStep(a, st.reg,
                                            InputBit(a, h[st.k], st.q))], h)

\* reflect(init, width) for the init the engine a was built from.
StartRegister(a) ==
    LET p == CHOOSE q \in Engines : IsEngine(a, q)
    IN  Mirror(p.init, p.width)

\* C15: after any Update/UpdateBits calls the register is what the one-bit
\* recurrence gives from reflect(init, width) over the bits of all the calls
\* in order, wherever the calls end.
C15_RegisterIsBitSerial ==
    \A s \in DOMAIN crcs :
        crcs[s].reg = Serial(algo, [k |-> 1, q |-> 0, reg |-> StartRegister(algo)],
                             hist[s])

\* C15's case: on an engine whose refin is false, 13 bits, then 3 bits, then
\* a whole byte: the whole-byte Update started inside a byte.
C15_Witness ==
    /\ ~algo.refin
    /\ Len(crcs) = 1
    /\ Len(hist[1]) = 3
    /\ hist[1][1] = Call(<<49, 50>>, 13)
    /\ hist[1][2] = Call(<<53>>, 3)
    /\ hist[1][3] = Call(<<54>>, -1)
    /\ ret.op = "Update"

\* v is at most (1 << width) - 1 for the engine a.
Fits(a, v) == \A i \in v : i < a.width

\* C16: the register of every session, every entry of the table, and
\* Residue() and Final() are at most (1 << width) - 1, for widths below 8 and
\* partial updates of more bits than the width too.
C16_WithinWidth ==
    /\ Fits(algo, algo.refInit)
    /\ \A i \in 0..255 : Fits(algo, algo.table[i])
    /\ \A s \in DOMAIN crcs :
           /\ Fits(algo, crcs[s].reg)
           /\ Fits(algo, Residue(algo, crcs[s].reg))
           /\ Fits(algo, Final(algo, crcs[s].reg))
    /\ ret.op = "Final" => Fits(algo, ret.val)

\* C16's case: an engine of width 3 whose refout is false took a partial
\* update of 5 bits, and Final() returned for a register that is not 0.
C16_Witness ==
    /\ algo.width = 3
    /\ ~algo.refout
    /\ Len(crcs) = 1
    /\ Len(hist[1]) = 3
    /\ hist[1][2] = Call(SecondData, 5)
    /\ crcs[1].reg # {}
    /\ ret.op = "Final"
    /\ ret.val # {}

---------------------------------------------------------------------------
(* What a call that panics leaves behind.                                  *)

\* A step that is an UpdateBits call with a bitLen beyond its data.
BeyondData ==
    /\ ret'.op = "UpdateBits"
    /\ ret'.bitLen > 8 * Len(ret'.data)

\* The step leaves every session's register, and so its Final(), as it was.
RegistersKept ==
    /\ crcs' = crcs
    /\ hist' = hist
    /\ \A s \in DOMAIN crcs :
           Final(algo', crcs'[s].reg) = Final(algo, crcs[s].reg)

\* C17: UpdateBits with a bitLen greater than 8 * len(data) panics before it
\* folds any input in: the register of the session, and its Final(), are
\* what they were before the call.
C17_PanicKeepsRegister ==
    [][BeyondData => (ret'.panic = PanicBitLen /\ RegistersKept)]_vars

\* C17's case: UpdateBits panicked on a session that had taken input before,
\* so that its register was not the initial one.
C17_Witness ==
    /\ ret.op = "UpdateBits"
    /\ ret.bitLen > 8 * Len(ret.data)
    /\ ret.panic = PanicBitLen
    /\ hist[ret.s] # <<>>
    /\ crcs[ret.s].reg # algo.refInit
    /\ crcs[ret.s].reg # tblUpd(algo, crcs[ret.s].reg, ret.data, -1).val

\* C18: Update and UpdateBits with 0 <= bitLen <= 8 * len(data), or with a
\* negative bitLen, complete without a fault: the partial byte data[bitLen>>3]
\* is read only when bitLen&7 > 0, and then bitLen>>3 < len(data); with
\* bitLen = 0 or empty data the register is unchanged.
C18_UpdateInRange ==
    (ret.op \in {"Update", "UpdateBits"} /\ ret.bitLen <= 8 * Len(ret.data))
        => LET h == hist[ret.s]
           IN  /\ ret.panic = ""
               /\ h # <<>>
               /\ h[Len(h)] = Call(ret.data, ret.bitLen)
               /\ (ret.bitLen >= 0 /\ ret.bitLen % 8 > 0)
                      => (ret.bitLen \div 8) + 1 \in DOMAIN ret.data
               /\ (ret.bitLen = 0 \/ ret.data = <<>>)
                      => crcs[ret.s].reg = Replay(algo, algo.refInit, Front(h))

\* C18's case: UpdateBits completed with bitLen = 8 * len(data), where
\* data[bitLen>>3] does not exist, on a session that had taken input.
C18_Witness ==
    /\ ret.op = "UpdateBits"
    /\ ret.data = SecondData
    /\ ret.bitLen = 8 * Len(ret.data)
    /\ ret.panic = ""
    /\ Len(hist[ret.s]) = 2
    /\ crcs[ret.s].reg # Replay(algo, algo.refInit, Front(hist[ret.s]))

---------------------------------------------------------------------------
(* The widths NewAlgo accepts.                                             *)

\* C19: with width equal to the bit width of T, NewAlgo succeeds for every
\* poly, init and xorout, the all-ones value included: (T(1) << width) - 1
\* wraps to all ones and T(1) << (width - 1) is not 0.  With
\* 1 <= width < bits(T) it succeeds exactly when poly, init and xorout are
\* all at most (1 << width) - 1.
C19_FullWidthAccepted ==
    (ret.op = "NewAlgo" /\ ret.p.width >= 1 /\ ret.p.width <= ret.p.bits)
        => LET p  == ret.p
               ok == /\ algo # NoAlgo
                     /\ err = NoErr
                     /\ ret.panic = ""
                     /\ IsEngine(algo, p)
           IN  /\ ok <=> ~(\/ Exceeds(p.poly, p.width)
                           \/ Exceeds(p.init, p.width)
                           \/ Exceeds(p.xorout, p.width))
               /\ ~ok => (algo = NoAlgo /\ err = ErrRange)
               /\ p.width = p.bits
                      => /\ ok
                         /\ Dec(p.bits, Shl(p.bits, {0}, p.width))
                                = 0..(p.bits - 1)
                         /\ Shl(p.bits, {0}, p.width - 1) = {p.bits - 1}

\* C19's case: NewAlgo[uint64] built an engine of width 64 whose poly, init
\* and xorout are all ones.
C19_Witness ==
    /\ ret.op = "NewAlgo"
    /\ ret.p.bits = 64
    /\ ret.p.width = 64
    /\ ret.p.poly = 0..63
    /\ ret.p.init = 0..63
    /\ ret.p.xorout = 0..63
    /\ algo # NoAlgo
    /\ algo.xorout = 0..63
    /\ err = NoErr

====
